---- MODULE Spec2Model ----
(***************************************************************************)
(* Job lifecycle of the sortbench HTTP service (api/go): the in-memory job *)
(* store with one goroutine per job, and the durable (Postgres) store with *)
(* a pool of leasing workers.                                              *)
(***************************************************************************)
EXTENDS Integers, FiniteSets, Sequences, TLC

\* ------------------------------------------------------------------ bounds
NumJobs == 2
NumWorkers == 2
MaxClock == 2
TimeoutTicks == 1
MaxJobsCap == 1
NumRlReqs == 2
RlMaxClock == 4
MaxRate == 2
MaxBurst == 2
TickSeconds == 30
MaxNCap == 2
MaxRepeatsCap == 1
MaxThreadsCap == 1
MaxTimeoutMs == 3
MaxBody == 2

Slots == 1..NumJobs
Workers == 1..NumWorkers
Times == 1..MaxClock
ReqIds == 1..(IF NumJobs > MaxClock THEN NumJobs ELSE MaxClock)

\* ------------------------------------------------------------ job records
JobPending == "pending"
JobRunning == "running"
JobDone == "done"
JobFailed == "failed"
JobCanceled == "canceled"

Active == {JobPending, JobRunning}
Terminal == {JobDone, JobFailed, JobCanceled}

\* Go zero value of a Job; Status "none" marks a Job that is not allocated.
NoJob ==
    [ID |-> 0, Status |-> "none", Error |-> "", ResultJSON |-> "",
     CreatedAt |-> 0, StartedAt |-> 0, FinishedAt |-> 0, DurationMs |-> 0]

\* SQL NULL of a text column and of a timestamp / integer column.
NullText == "NULL"
NullNum == -1

\* A row of table jobs that was never inserted.
NoRow ==
    [status |-> "none", result_json |-> NullText, error |-> NullText,
     created_at |-> NullNum, started_at |-> NullNum, finished_at |-> NullNum,
     duration_ms |-> NullNum]

CtxCanceled == "context canceled"
CtxDeadline == "context deadline exceeded"

VARIABLES
    useDB,      \* durable mode (DATABASE_URL set and initDB succeeded)
    cgo,        \* SORTBENCH_CGO = "1": in-process engine
    maxJobs,    \* effective MAX_JOBS
    now,        \* wall clock
    jobs,       \* Job objects, one per submit request slot
    m,          \* JobManager.m : id -> slot of the Job it points to (0: no entry)
    rows,       \* table jobs, keyed by the slot that inserted the row
    ctxErr,     \* per job: Err() of its context; "noctx" before it is created
    gpc,        \* position of the job goroutine (in-memory)
    gerr,       \* err local of the job goroutine
    rpc,        \* position of the POST /jobs request of each slot
    cpc,        \* id of the durable cancel request between its two halves (0: none)
    wpc,        \* position of each worker
    wjob,       \* id leased by each worker (0: none)
    werr,       \* execErr local of each worker
    wstart,     \* start local of each worker
    wdur,       \* dur local of each worker
    running,    \* process-local cancel map: the ids with an entry
    sig,        \* "wait" | "cancelAll" | "down"
    caTodo,     \* slots cancelAll has still to visit
    tap,        \* what an observer records: "off" | "resp" | "hist"
    resp,       \* the last HTTP response written (recorded under "resp")
    \* history of a run, kept while the run lasts (recorded under "hist")
    execs,      \* per job: how many times the engine was invoked for it
    tok,        \* per job: whether its context was done when the engine returned
    hit,        \* per job: a cancel was answered while its run was in progress
    chit,       \* the run was in progress when the durable cancel in flight began
    \* the middleware in front of the routes
    trustXFF,   \* TRUST_XFF = "1"
    rlRate,     \* RATE_LIMIT_R: requests per minute
    rlCapacity, \* RATE_LIMIT_B: burst
    rlBuckets,  \* client identity -> bucket (tokens in sixtieths of a token)
    rlReq,      \* the requests inside withRateLimit
    rlOut,      \* what withRateLimit did with the last request it decided
    rlLog,      \* history: per identity and instant, the requests admitted
    \* one call of a function of the request: its arguments and its result
    inp,
    out,
    \* the job metrics, kept apart by the job that caused the update
    jobsCompleted, \* per job: increments of jobs_completed_total, by result label
    jobsDuration   \* per job: observations of job_duration_seconds

vars ==
    <<useDB, cgo, maxJobs, now, jobs, m, rows, ctxErr, gpc, gerr, rpc, cpc,
      wpc, wjob, werr, wstart, wdur, running, sig, caTodo, tap, resp,
      execs, tok, hit, chit, trustXFF, rlRate, rlCapacity, rlBuckets, rlReq,
      rlOut, rlLog, inp, out, jobsCompleted, jobsDuration>>

cfgVars == <<useDB, cgo, maxJobs, tap>>
histVars == <<execs, tok, hit, chit>>
memVars == <<jobs, m, gpc, gerr>>
dbVars == <<rows, running>>
workerVars == <<wpc, wjob, werr, wstart, wdur>>
sigVars == <<sig, caTodo>>
rlVars == <<trustXFF, rlRate, rlCapacity, rlBuckets, rlReq, rlOut, rlLog>>
callVars == <<inp, out>>
sideVars == <<rlVars, callVars>>
metricVars == <<jobsCompleted, jobsDuration>>

\* JSON: a key left out by omitempty
Absent == "absent"
AbsentNum == -1

NoPayload ==
    [status |-> "none", error |-> Absent, result |-> Absent, created_at |-> 0,
     started_at |-> 0, finished_at |-> 0, duration_ms |-> AbsentNum]

Response(route, id, code, msg, job) ==
    [route |-> route, id |-> id, code |-> code, msg |-> msg, job |-> job]

NoResp == Response("none", 0, 0, "", NoPayload)

\* history: the context and the error at the moment the engine returned
AtReturn(e, err) ==
    [fired |-> e # "nil", ok |-> err = "nil", set |-> TRUE]

NoReturn == [fired |-> FALSE, ok |-> FALSE, set |-> FALSE]

\* ------------------------------------------------- strings, as Go sees them
\* a string is the sequence of its characters

\* strings.TrimSpace, the leading part
RECURSIVE TrimLeft(_)
TrimLeft(str) ==
    IF str # <<>> /\ Head(str) = " " THEN TrimLeft(Tail(str)) ELSE str

\* strings.TrimSpace, the trailing part
RECURSIVE TrimRight(_)
TrimRight(str) ==
    IF str # <<>> /\ str[Len(str)] = " "
    THEN TrimRight(SubSeq(str, 1, Len(str) - 1))
    ELSE str

\* strings.TrimSpace
TrimSpace(str) == TrimRight(TrimLeft(str))

\* strings.Split(str, sep)[0]
RECURSIVE FirstPart(_, _)
FirstPart(str, sep) ==
    IF str = <<>> \/ Head(str) = sep THEN <<>>
    ELSE <<Head(str)>> \o FirstPart(Tail(str), sep)

\* position of the last sep in str, 0 if there is none
RECURSIVE LastIndex(_, _)
LastIndex(str, sep) ==
    IF str = <<>> THEN 0
    ELSE IF str[Len(str)] = sep THEN Len(str)
    ELSE LastIndex(SubSeq(str, 1, Len(str) - 1), sep)

\* ------------------------------------------------------------ rate limiter
RlReqs == 1..NumRlReqs

\* r.RemoteAddr of the connections: host:port, and one without a port
RemoteAddrs == {<<"h", ":", "1">>, <<"h", ":", "2">>, <<"h">>}

\* X-Forwarded-For headers a client may send
XffHeaders == {<<>>, <<"x">>, <<" ", "x", " ", ",", "y">>}

\* the keys of rlBuckets that these requests can produce
Idents == {<<"h">>, <<"x">>}

\* rlRate / 60.0: tokens are counted in sixtieths, so a token costs 60
PerMinute == 60

\* no entry in rlBuckets
NoBucket == [made |-> FALSE, tokens |-> 0, lastRefill |-> 0]

\* a request slot outside withRateLimit
NoRlReq == [pc |-> "idle", ip |-> <<>>]

NoRlOut == [ip |-> <<>>, code |-> 0, retryAfter |-> ""]

NoCall == [f |-> "none"]

\* jobs_completed_total before any increment
NoCompleted == [r \in {"done", "failed", "canceled"} |-> 0]

\* the middleware and the call variables when nothing uses them
InitSide ==
    /\ trustXFF = FALSE
    /\ rlRate = 1
    /\ rlCapacity = 1
    /\ rlBuckets = [i \in Idents |-> NoBucket]
    /\ rlReq = [r \in RlReqs |-> NoRlReq]
    /\ rlOut = NoRlOut
    /\ rlLog = [i \in Idents |-> [t \in 1..RlMaxClock |-> 0]]
    /\ inp = NoCall
    /\ out = NoCall

\* The job stores after main() has set up the server.
InitJobs ==
    /\ now = 1
    /\ jobs = [s \in Slots |-> NoJob]
    /\ m = [i \in Times |-> 0]
    /\ rows = [s \in Slots |-> NoRow]
    /\ ctxErr = [s \in Slots |-> "noctx"]
    /\ gpc = [s \in Slots |-> "idle"]
    /\ gerr = [s \in Slots |-> "nil"]
    /\ rpc = [s \in Slots |-> "idle"]
    /\ cpc = 0
    /\ wpc = [w \in Workers |-> "loop"]
    /\ wjob = [w \in Workers |-> 0]
    /\ werr = [w \in Workers |-> "nil"]
    /\ wstart = [w \in Workers |-> 0]
    /\ wdur = [w \in Workers |-> 0]
    /\ running = {}
    /\ sig = "wait"
    /\ caTodo = {}
    /\ resp = NoResp
    /\ execs = [s \in Slots |-> 0]
    /\ tok = [s \in Slots |-> NoReturn]
    /\ hit = [s \in Slots |-> FALSE]
    /\ chit = FALSE
    /\ jobsCompleted = [s \in Slots |-> NoCompleted]
    /\ jobsDuration = [s \in Slots |-> 0]

\* The state after main() has set up the server, but for the configuration.
InitState == InitJobs /\ InitSide

\* Either store, either engine, a job cap of at least 1.
Init ==
    /\ useDB \in BOOLEAN
    /\ cgo \in BOOLEAN
    /\ maxJobs \in 1..MaxJobsCap
    /\ tap = "off"
    /\ InitState

\* The same, with a client that records the responses.
InitTap ==
    /\ useDB \in BOOLEAN
    /\ cgo \in BOOLEAN
    /\ maxJobs \in 1..MaxJobsCap
    /\ tap = "resp"
    /\ InitState

\* The same, with an observer that records the history of each run.
InitHist ==
    /\ useDB \in BOOLEAN
    /\ cgo \in BOOLEAN
    /\ maxJobs \in 1..MaxJobsCap
    /\ tap = "hist"
    /\ InitState

\* time.Now() advances
Tick ==
    /\ now < MaxClock
    /\ now' = now + 1
    /\ UNCHANGED <<cfgVars, metricVars, sideVars, histVars, memVars, dbVars, workerVars, sigVars, ctxErr, rpc, cpc, resp>>

\* ------------------------------------------------------ in-memory job store

\* JobManager.get
Lookup(id) == IF id \in Times THEN m[id] ELSE 0

\* JobManager.activeCount: the map's entries that are pending or running
activeCount ==
    Cardinality({i \in Times : m[i] # 0 /\ jobs[m[i]].Status \in Active})

\* SELECT COUNT(*) FROM jobs WHERE status IN ('pending','running')
dbActiveCount ==
    Cardinality({s \in Slots : rows[s].status \in Active})

\* variant: the cap check without the test for a cap of 0
OverCapZero ==
    (IF useDB THEN dbActiveCount ELSE activeCount) >= maxJobs

\* variant: the cap check with > for >=
OverCapStrict ==
    /\ maxJobs > 0
    /\ (IF useDB THEN dbActiveCount ELSE activeCount) > maxJobs

\* the cap check of the POST /jobs route
OverCap ==
    /\ maxJobs > 0
    /\ (IF useDB THEN dbActiveCount ELSE activeCount) >= maxJobs

\* genID: the clock reading, as the id
genID == now

\* json.Marshal of a Job (struct tags: error, result and duration_ms omitempty)
JobJSON(j) ==
    [status |-> j.Status,
     error |-> IF j.Error = "" THEN Absent ELSE j.Error,
     result |-> IF j.ResultJSON = "" THEN Absent ELSE j.ResultJSON,
     created_at |-> j.CreatedAt,
     started_at |-> j.StartedAt,
     finished_at |-> j.FinishedAt,
     duration_ms |-> IF j.DurationMs = 0 THEN AbsentNum ELSE j.DurationMs]

\* context.CancelFunc: the first cause sticks. A context nobody can read any
\* more ("gone": its goroutine or worker run has ended) is not tracked.
CancelCtx(e) == IF e = "nil" THEN CtxCanceled ELSE e

\* the response, as the recording client keeps it
Record(r) == IF tap = "resp" THEN r ELSE resp

\* a history value, as the observer keeps it
Hist(v, old) == IF tap = "hist" THEN v ELSE old

\* POST /jobs, the route closure: cap check, then submitJobHandler
ReqAdmit(s) ==
    /\ rpc[s] = "idle"
    /\ sig # "down"
    /\ IF OverCap
       THEN /\ rpc' = [rpc EXCEPT ![s] = "429"]
            /\ resp' = Record(Response("submit", 0, 429, "too many jobs", NoPayload))
       ELSE /\ rpc' = [rpc EXCEPT ![s] = "admitted"]
            /\ UNCHANGED resp
    /\ UNCHANGED <<cfgVars, metricVars, sideVars, histVars, now, memVars, dbVars, workerVars, sigVars, ctxErr, cpc>>

\* submitJobHandler, in-memory: create the Job, start its goroutine, answer 202
SubmitMem(s) ==
    /\ ~useDB
    /\ rpc[s] = "admitted"
    /\ sig # "cancelAll"
    /\ jobs' = [jobs EXCEPT ![s] =
            [NoJob EXCEPT !.ID = genID, !.Status = JobPending, !.CreatedAt = now]]
    /\ m' = [m EXCEPT ![genID] = s]
    /\ ctxErr' = [ctxErr EXCEPT ![s] = "nil"]
    /\ gpc' = [gpc EXCEPT ![s] = "start"]
    /\ rpc' = [rpc EXCEPT ![s] = "202"]
    /\ resp' = Record(Response("submit", genID, 202, "job_id", NoPayload))
    /\ UNCHANGED <<cfgVars, metricVars, sideVars, histVars, now, gerr, dbVars, workerVars, sigVars, cpc>>

\* goroutine: Status = JobRunning, StartedAt = now
JobStart(s) ==
    /\ gpc[s] = "start"
    /\ jobs' = [jobs EXCEPT ![s].Status = JobRunning, ![s].StartedAt = now]
    /\ gpc' = [gpc EXCEPT ![s] = "engine"]
    /\ UNCHANGED <<cfgVars, metricVars, sideVars, histVars, now, m, gerr, dbVars, workerVars, sigVars, ctxErr, rpc, cpc, resp>>

\* The errors an engine call can return under context error e.
\* runCGO takes no context; exec.CommandContext kills the child once the
\* context is done.
EngineErrs(e) ==
    IF cgo THEN {"nil", "engine error"}
    ELSE IF e = "nil" THEN {"nil", "engine error"}
    ELSE {"killed"}

\* goroutine: the engine call returns
EngineReturn(s) ==
    /\ gpc[s] = "engine"
    /\ \E e \in EngineErrs(ctxErr[s]) :
          /\ gerr' = [gerr EXCEPT ![s] = e]
          /\ tok' = [tok EXCEPT ![s] = Hist(AtReturn(ctxErr[s], e), @)]
    /\ gpc' = [gpc EXCEPT ![s] = "finish"]
    /\ execs' = [execs EXCEPT ![s] = @ + 1]
    /\ UNCHANGED <<cfgVars, metricVars, sideVars, hit, chit, now, jobs, m, dbVars, workerVars, sigVars, ctxErr, rpc, cpc, resp>>

\* goroutine: FinishedAt and DurationMs
JobFinish(s) ==
    /\ gpc[s] = "finish"
    /\ jobs' = [jobs EXCEPT ![s].FinishedAt = now,
                            ![s].DurationMs = now - jobs[s].StartedAt]
    /\ gpc' = [gpc EXCEPT ![s] = "commit"]
    /\ UNCHANGED <<cfgVars, metricVars, sideVars, histVars, now, m, gerr, dbVars, workerVars, sigVars, ctxErr, rpc, cpc, resp>>

\* variant: the engine output is stored before the error is examined
MemOutcomeKeepsOutput(j, err, e) ==
    IF err # "nil"
    THEN IF e \in {CtxCanceled, CtxDeadline}
         THEN [j EXCEPT !.Status = JobCanceled, !.Error = e, !.ResultJSON = "rows"]
         ELSE [j EXCEPT !.Status = JobFailed, !.Error = err, !.ResultJSON = "rows"]
    ELSE [j EXCEPT !.ResultJSON = "rows", !.Status = JobDone]

\* The terminal record the goroutine writes for err and ctx.Err()
MemOutcome(j, err, e) ==
    IF err # "nil"
    THEN IF e \in {CtxCanceled, CtxDeadline}
         THEN [j EXCEPT !.Status = JobCanceled, !.Error = e]
         ELSE [j EXCEPT !.Status = JobFailed, !.Error = err]
    ELSE [j EXCEPT !.ResultJSON = "rows", !.Status = JobDone]

\* goroutine: the terminal status, then jobsCompleted and jobsDuration
JobCommit(s) ==
    /\ gpc[s] = "commit"
    /\ jobs' = [jobs EXCEPT ![s] = MemOutcome(jobs[s], gerr[s], ctxErr[s])]
    /\ gpc' = [gpc EXCEPT ![s] = "exit"]
    /\ gerr' = [gerr EXCEPT ![s] = "nil"]
    /\ ctxErr' = [ctxErr EXCEPT ![s] = "gone"]
    /\ tok' = [tok EXCEPT ![s] = NoReturn]
    /\ hit' = [hit EXCEPT ![s] = FALSE]
    /\ jobsCompleted' = [jobsCompleted EXCEPT
            ![s][MemOutcome(jobs[s], gerr[s], ctxErr[s]).Status] = @ + 1]
    /\ jobsDuration' = [jobsDuration EXCEPT ![s] = @ + 1]
    /\ UNCHANGED <<cfgVars, sideVars, execs, chit, now, m, dbVars, workerVars, sigVars, rpc, cpc, resp>>

\* getJobHandler on the in-memory store
GetMemResponse(id) ==
    IF Lookup(id) # 0
    THEN Response("get", id, 200, "", JobJSON(jobs[Lookup(id)]))
    ELSE Response("get", id, 404, "not found", NoPayload)

\* GET /jobs/{id}, in-memory
GetMem(id) ==
    /\ ~useDB
    /\ resp' = Record(GetMemResponse(id))
    /\ UNCHANGED <<cfgVars, metricVars, sideVars, histVars, now, memVars, dbVars, workerVars, sigVars, ctxErr, rpc, cpc>>

\* history: the run of an in-memory job is in progress (the engine has not
\* returned yet)
InProgressMem(s) ==
    jobs[s].Status \in Active /\ gpc[s] \in {"start", "engine"}

\* variant: a cancel of a finished job is refused with 409
CancelMemResponseStrict(id) ==
    IF Lookup(id) = 0
    THEN Response("cancel", id, 404, "not found", NoPayload)
    ELSE IF jobs[Lookup(id)].Status \in Terminal
    THEN Response("cancel", id, 409, "already finished", NoPayload)
    ELSE Response("cancel", id, 200, "cancelled", NoPayload)

\* cancelJobHandler on the in-memory store: what it answers
CancelMemResponse(id) ==
    IF Lookup(id) # 0
    THEN Response("cancel", id, 200, "cancelled", NoPayload)
    ELSE Response("cancel", id, 404, "not found", NoPayload)

\* POST /jobs/{id}/cancel, in-memory
CancelMem(id) ==
    /\ ~useDB
    /\ IF Lookup(id) # 0
       THEN /\ ctxErr' = [ctxErr EXCEPT ![Lookup(id)] = CancelCtx(@)]
            /\ hit' = [hit EXCEPT ![Lookup(id)] = Hist(@ \/ InProgressMem(Lookup(id)), @)]
       ELSE UNCHANGED <<ctxErr, hit>>
    /\ resp' = Record(CancelMemResponse(id))
    /\ UNCHANGED <<cfgVars, metricVars, sideVars, execs, tok, chit, now, memVars, dbVars, workerVars, sigVars, rpc, cpc>>

\* the timer of context.WithTimeout(..., defaultTimeout) of an in-memory job
DeadlineMem(s) ==
    /\ ~useDB
    /\ ctxErr[s] = "nil"
    /\ now >= jobs[s].CreatedAt + TimeoutTicks
    /\ ctxErr' = [ctxErr EXCEPT ![s] = CtxDeadline]
    /\ UNCHANGED <<cfgVars, metricVars, sideVars, histVars, now, memVars, dbVars, workerVars, sigVars, rpc, cpc, resp>>

\* ------------------------------------------------- shutdown (in-memory)

\* SIGINT: both signal.NotifyContext contexts are cancelled. The worker
\* context is the parent of every run context; the shutdown goroutine enters
\* jobs.cancelAll, which holds the map's read lock over the entries it ranges.
Signal ==
    /\ sig = "wait"
    /\ sig' = "cancelAll"
    /\ caTodo' = {s \in Slots : \E i \in Times : m[i] = s}
    /\ ctxErr' = IF useDB
                 THEN [s \in Slots |-> CancelCtx(ctxErr[s])]
                 ELSE ctxErr
    /\ UNCHANGED <<cfgVars, metricVars, sideVars, histVars, now, memVars, dbVars, workerVars, rpc, cpc, resp>>

\* cancelAll: one entry of the range loop
CancelAllVisit(s) ==
    /\ sig = "cancelAll"
    /\ s \in caTodo
    /\ caTodo' = caTodo \ {s}
    /\ ctxErr' = IF jobs[s].Status \in Active
                 THEN [ctxErr EXCEPT ![s] = CancelCtx(@)]
                 ELSE ctxErr
    /\ UNCHANGED <<cfgVars, metricVars, sideVars, histVars, now, memVars, dbVars, workerVars, sig, rpc, cpc, resp>>

\* cancelAll returns; srv.Shutdown stops accepting requests
Shutdown ==
    /\ sig = "cancelAll"
    /\ caTodo = {}
    /\ sig' = "down"
    /\ UNCHANGED <<cfgVars, metricVars, sideVars, histVars, now, memVars, dbVars, workerVars, caTodo, ctxErr, rpc, cpc, resp>>

\* ------------------------------------------------------ durable job store

Row(id) == IF id \in Slots THEN rows[id] ELSE NoRow

\* submitJobHandler, durable: dbEnqueue inserts the row (id: a fresh UUID)
SubmitDB(s) ==
    /\ useDB
    /\ rpc[s] = "admitted"
    /\ rows' = [rows EXCEPT ![s] = [NoRow EXCEPT !.status = JobPending, !.created_at = now]]
    /\ rpc' = [rpc EXCEPT ![s] = "202"]
    /\ resp' = Record(Response("submit", s, 202, "job_id", NoPayload))
    /\ UNCHANGED <<cfgVars, metricVars, sideVars, histVars, now, memVars, running, workerVars, sigVars, ctxErr, cpc>>

\* variant: failed rows are picked up again
LeaseRetry ==
    {s \in Slots : rows[s].status \in {JobPending, JobFailed}}

\* variant: the select asks for a status that enqueue never writes
LeaseQueued ==
    {s \in Slots : rows[s].status = "queued"}

\* variant: the select looks at started_at instead of status
LeaseUnstarted ==
    {s \in Slots : rows[s].status # "none" /\ rows[s].started_at = NullNum}

\* WHERE status='pending' ORDER BY created_at ASC LIMIT 1 FOR UPDATE SKIP LOCKED
LeaseCandidates ==
    {s \in Slots :
        /\ rows[s].status = JobPending
        /\ \A t \in Slots :
              rows[t].status = JobPending => rows[s].created_at <= rows[t].created_at}

\* workerLoop: the lease transaction (select, update to running, commit)
WorkerLease(w) ==
    /\ useDB
    /\ wpc[w] = "loop"
    /\ sig = "wait"
    /\ \E s \in LeaseCandidates :
          /\ rows' = [rows EXCEPT ![s].status = JobRunning, ![s].started_at = now]
          /\ wjob' = [wjob EXCEPT ![w] = s]
    /\ wpc' = [wpc EXCEPT ![w] = "leased"]
    /\ UNCHANGED <<cfgVars, metricVars, sideVars, histVars, now, memVars, running, werr, wstart, wdur, sigVars, ctxErr, rpc, cpc, resp>>

\* workerLoop: ctx.Done() at the head of the loop
WorkerStop(w) ==
    /\ useDB
    /\ wpc[w] = "loop"
    /\ sig # "wait"
    /\ wpc' = [wpc EXCEPT ![w] = "stopped"]
    /\ UNCHANGED <<cfgVars, metricVars, sideVars, histVars, now, memVars, dbVars, wjob, werr, wstart, wdur, sigVars, ctxErr, rpc, cpc, resp>>

\* workerLoop: runCtx, running[id] = cancel, start = time.Now()
WorkerRegister(w) ==
    /\ wpc[w] = "leased"
    /\ ctxErr' = [ctxErr EXCEPT ![wjob[w]] = IF sig = "wait" THEN "nil" ELSE CtxCanceled]
    /\ running' = running \cup {wjob[w]}
    /\ wstart' = [wstart EXCEPT ![w] = now]
    /\ wpc' = [wpc EXCEPT ![w] = "exec"]
    /\ UNCHANGED <<cfgVars, metricVars, sideVars, histVars, now, memVars, rows, wjob, werr, wdur, sigVars, rpc, cpc, resp>>

\* workerLoop: execRun returns; dur = time.Since(start)
WorkerExec(w) ==
    /\ wpc[w] = "exec"
    /\ \E e \in EngineErrs(ctxErr[wjob[w]]) : werr' = [werr EXCEPT ![w] = e]
    /\ wdur' = [wdur EXCEPT ![w] = now - wstart[w]]
    /\ wpc' = [wpc EXCEPT ![w] = "ran"]
    /\ execs' = [execs EXCEPT ![wjob[w]] = @ + 1]
    /\ UNCHANGED <<cfgVars, metricVars, sideVars, tok, hit, chit, now, memVars, dbVars, wjob, wstart, sigVars, ctxErr, rpc, cpc, resp>>

\* variant: the entry is left in the map
WorkerUnregisterKeeps(w) ==
    /\ wpc[w] = "ran"
    /\ wpc' = [wpc EXCEPT ![w] = "write"]
    /\ UNCHANGED <<cfgVars, metricVars, sideVars, histVars, now, memVars, dbVars, wjob, werr, wstart, wdur, sigVars, ctxErr, rpc, cpc, resp>>

\* workerLoop: delete(running, id)
WorkerUnregister(w) ==
    /\ wpc[w] = "ran"
    /\ running' = running \ {wjob[w]}
    /\ wpc' = [wpc EXCEPT ![w] = "write"]
    /\ UNCHANGED <<cfgVars, metricVars, sideVars, histVars, now, memVars, rows, wjob, werr, wstart, wdur, sigVars, ctxErr, rpc, cpc, resp>>

\* The terminal row the worker writes for execErr and runCtx.Err(); its
\* status is also the label of the jobs_completed_total increment
DbOutcome(r, err, e, dur, t) ==
    IF err # "nil"
    THEN [r EXCEPT !.status = IF e # "nil" THEN JobCanceled ELSE JobFailed,
                   !.error = err, !.finished_at = t, !.duration_ms = dur]
    ELSE [r EXCEPT !.status = JobDone, !.result_json = "rows",
                   !.finished_at = t, !.duration_ms = dur]

\* workerLoop: the terminal UPDATE, through the worker context (its error is
\* dropped: a cancelled context writes nothing), the jobs_completed_total
\* increment, then the next iteration
WorkerWrite(w) ==
    /\ wpc[w] = "write"
    /\ rows' = IF sig = "wait"
               THEN [rows EXCEPT ![wjob[w]] =
                        DbOutcome(@, werr[w], ctxErr[wjob[w]], wdur[w], now)]
               ELSE rows
    /\ ctxErr' = [ctxErr EXCEPT ![wjob[w]] = "gone"]
    /\ wpc' = [wpc EXCEPT ![w] = "loop"]
    /\ wjob' = [wjob EXCEPT ![w] = 0]
    /\ werr' = [werr EXCEPT ![w] = "nil"]
    /\ wstart' = [wstart EXCEPT ![w] = 0]
    /\ wdur' = [wdur EXCEPT ![w] = 0]
    /\ hit' = [hit EXCEPT ![wjob[w]] = FALSE]
    /\ jobsCompleted' = [jobsCompleted EXCEPT
            ![wjob[w]][DbOutcome(rows[wjob[w]], werr[w], ctxErr[wjob[w]], wdur[w], now).status] = @ + 1]
    /\ UNCHANGED <<cfgVars, jobsDuration, sideVars, execs, tok, chit, now, memVars, running, sigVars, rpc, cpc, resp>>

\* the timer of context.WithTimeout(ctx, defaultTimeout) of a leased run
DeadlineDB(w) ==
    /\ wpc[w] \in {"exec", "ran", "write"}
    /\ ctxErr[wjob[w]] = "nil"
    /\ now >= wstart[w] + TimeoutTicks
    /\ ctxErr' = [ctxErr EXCEPT ![wjob[w]] = CtxDeadline]
    /\ UNCHANGED <<cfgVars, metricVars, sideVars, histVars, now, memVars, dbVars, workerVars, sigVars, rpc, cpc, resp>>

\* history: the run of a durable job is in progress (the row is pending or
\* running and the engine has not returned yet)
InProgressDB(id) ==
    /\ Row(id).status \in Active
    /\ \A w \in Workers : wjob[w] = id => wpc[w] \in {"leased", "exec"}

\* cancelJobHandler, durable, first half: running[id], and c() if present
CancelDBSignal(id) ==
    /\ useDB
    /\ cpc = 0
    /\ ctxErr' = IF id \in running
                 THEN [ctxErr EXCEPT ![id] = CancelCtx(@)]
                 ELSE ctxErr
    /\ cpc' = id
    /\ chit' = Hist(InProgressDB(id), chit)
    /\ UNCHANGED <<cfgVars, metricVars, sideVars, execs, tok, hit, now, memVars, dbVars, workerVars, sigVars, rpc, resp>>

\* variant: the UPDATE without AND status='pending'
CancelRowAny(r) == IF r.status # "none" THEN [r EXCEPT !.status = JobCanceled] ELSE r

\* UPDATE jobs SET status='canceled' WHERE id=$1 AND status='pending'
CancelRow(r) == IF r.status = JobPending THEN [r EXCEPT !.status = JobCanceled] ELSE r

\* cancelJobHandler, durable, second half: the UPDATE, then 200
CancelDBUpdate(id) ==
    /\ cpc = id
    /\ rows' = IF id \in Slots THEN [rows EXCEPT ![id] = CancelRow(@)] ELSE rows
    /\ cpc' = 0
    /\ resp' = Record(Response("cancel", id, 200, "cancelled", NoPayload))
    /\ hit' = IF id \in Slots
              THEN [hit EXCEPT ![id] = Hist(@ \/ (chit /\ InProgressDB(id)), @)]
              ELSE hit
    /\ chit' = FALSE
    /\ UNCHANGED <<cfgVars, metricVars, sideVars, execs, tok, now, memVars, running, workerVars, sigVars, ctxErr, rpc>>

\* dbGetJob: row.Scan into dbJob (Error string, Result json.RawMessage) fails
\* on a NULL column it cannot hold
ScanOK(r) == r.status # "none" /\ r.error # NullText /\ r.result_json # NullText

\* the map getJobHandler answers with in durable mode
RowJSON(r) ==
    [status |-> r.status,
     error |-> r.error,
     result |-> r.result_json,
     created_at |-> r.created_at,
     started_at |-> IF r.started_at = NullNum THEN 0 ELSE r.started_at,
     finished_at |-> IF r.finished_at = NullNum THEN 0 ELSE r.finished_at,
     duration_ms |-> IF r.duration_ms = NullNum THEN 0 ELSE r.duration_ms]

\* getJobHandler, durable: the row, else the (empty) in-memory store
GetDBResponse(id) ==
    IF ScanOK(Row(id))
    THEN Response("get", id, 200, "", RowJSON(Row(id)))
    ELSE GetMemResponse(id)

\* GET /jobs/{id}, durable
GetDB(id) ==
    /\ useDB
    /\ resp' = Record(GetDBResponse(id))
    /\ UNCHANGED <<cfgVars, metricVars, sideVars, histVars, now, memVars, dbVars, workerVars, sigVars, ctxErr, rpc, cpc>>

Next ==
    \/ Tick
    \/ \E s \in Slots : ReqAdmit(s)
    \/ \E s \in Slots : SubmitMem(s)
    \/ \E s \in Slots : JobStart(s)
    \/ \E s \in Slots : EngineReturn(s)
    \/ \E s \in Slots : JobFinish(s)
    \/ \E s \in Slots : JobCommit(s)
    \/ \E id \in ReqIds : GetMem(id)
    \/ \E id \in ReqIds : CancelMem(id)
    \/ \E s \in Slots : DeadlineMem(s)
    \/ Signal
    \/ \E s \in Slots : CancelAllVisit(s)
    \/ Shutdown
    \/ \E s \in Slots : SubmitDB(s)
    \/ \E w \in Workers : WorkerLease(w)
    \/ \E w \in Workers : WorkerStop(w)
    \/ \E w \in Workers : WorkerRegister(w)
    \/ \E w \in Workers : WorkerExec(w)
    \/ \E w \in Workers : WorkerUnregister(w)
    \/ \E w \in Workers : WorkerWrite(w)
    \/ \E w \in Workers : DeadlineDB(w)
    \/ \E id \in ReqIds : CancelDBSignal(id)
    \/ \E id \in ReqIds : CancelDBUpdate(id)
    \/ \E id \in ReqIds : GetDB(id)

Spec == Init /\ [][Next]_vars

SpecTap == InitTap /\ [][Next]_vars

SpecHist == InitHist /\ [][Next]_vars

\* MAX_JOBS=0, which the parser accepts (n >= 0)
InitNoCap ==
    /\ useDB \in BOOLEAN
    /\ cgo \in BOOLEAN
    /\ maxJobs = 0
    /\ tap = "off"
    /\ InitState

SpecNoCap == InitNoCap /\ [][Next]_vars

\* the durable service alone: -db-driver/-db-dsn given, so every request
\* takes the useDB branch and the workers of main are started
InitDB ==
    /\ InitState
    /\ useDB = TRUE
    /\ cgo \in BOOLEAN
    /\ maxJobs \in 1..MaxJobsCap
    /\ tap = "off"

NextDB ==
    \/ Tick
    \/ \E s \in Slots : ReqAdmit(s)
    \/ \E s \in Slots : SubmitDB(s)
    \/ \E w \in Workers : WorkerLease(w)
    \/ \E w \in Workers : WorkerStop(w)
    \/ \E w \in Workers : WorkerRegister(w)
    \/ \E w \in Workers : WorkerExec(w)
    \/ \E w \in Workers : WorkerUnregister(w)
    \/ \E w \in Workers : WorkerWrite(w)
    \/ \E w \in Workers : DeadlineDB(w)
    \/ \E id \in ReqIds : CancelDBSignal(id)
    \/ \E id \in ReqIds : CancelDBUpdate(id)
    \/ \E id \in ReqIds : GetDB(id)
    \/ Signal
    \/ Shutdown

\* each worker goroutine keeps being scheduled, its database round trips
\* complete and execRun returns
WorkerFairness ==
    \A w \in Workers :
        /\ WF_vars(WorkerLease(w))
        /\ WF_vars(WorkerRegister(w))
        /\ WF_vars(WorkerExec(w))
        /\ WF_vars(WorkerUnregister(w))
        /\ WF_vars(WorkerWrite(w))

SpecLive == InitDB /\ [][NextDB]_vars /\ WorkerFairness

\* ------------------------------------------------- rate limiter: actions

\* variant: the header is honoured whatever the flag
clientIPAnyXFF(trust, xff, addr) ==
    IF xff # <<>>
    THEN TrimSpace(FirstPart(xff, ","))
    ELSE IF LastIndex(addr, ":") = 0 THEN addr
    ELSE SubSeq(addr, 1, LastIndex(addr, ":") - 1)

\* clientIP
clientIP(trust, xff, addr) ==
    IF trust /\ xff # <<>>
    THEN TrimSpace(FirstPart(xff, ","))
    ELSE IF LastIndex(addr, ":") = 0 THEN addr
    ELSE SubSeq(addr, 1, LastIndex(addr, ":") - 1)

\* getBucket: a new bucket starts full
getBucket(ip) ==
    IF rlBuckets[ip].made THEN rlBuckets[ip]
    ELSE [made |-> TRUE, tokens |-> rlCapacity * PerMinute, lastRefill |-> now]

\* variant: the refill without the clamp
RefillUnclamped(b) ==
    b.tokens + (now - b.lastRefill) * TickSeconds * rlRate

\* allow: tokens += elapsed * (rlRate / 60), clamped to rlCapacity
Refill(b) ==
    IF b.tokens + (now - b.lastRefill) * TickSeconds * rlRate > rlCapacity * PerMinute
    THEN rlCapacity * PerMinute
    ELSE b.tokens + (now - b.lastRefill) * TickSeconds * rlRate

\* allow: the decision on the refilled balance
Admits(b) == Refill(b) >= PerMinute

\* variant: lastRefill is left as it was
allowKeepsLastRefill(b) ==
    [made |-> TRUE,
     tokens |-> IF Admits(b) THEN Refill(b) - PerMinute ELSE Refill(b),
     lastRefill |-> b.lastRefill]

\* allow: the bucket it leaves
allow(b) ==
    [made |-> TRUE,
     tokens |-> IF Admits(b) THEN Refill(b) - PerMinute ELSE Refill(b),
     lastRefill |-> now]

\* time.Now() advances by TickSeconds
RlTick ==
    /\ now < RlMaxClock
    /\ now' = now + 1
    /\ UNCHANGED <<cfgVars, metricVars, histVars, memVars, dbVars, workerVars, sigVars, ctxErr,
                   rpc, cpc, resp, rlVars, callVars>>

\* withRateLimit: clientIP(r), and getBucket under rlMu
RlGetBucket(r) ==
    /\ rlReq[r].pc = "idle"
    /\ \E addr \in RemoteAddrs, xff \in XffHeaders :
          /\ rlReq' = [rlReq EXCEPT ![r] =
                  [pc |-> "bucket", ip |-> clientIP(trustXFF, xff, addr)]]
          /\ rlBuckets' = [rlBuckets EXCEPT ![clientIP(trustXFF, xff, addr)] =
                  getBucket(clientIP(trustXFF, xff, addr))]
    /\ UNCHANGED <<cfgVars, metricVars, histVars, now, memVars, dbVars, workerVars, sigVars,
                   ctxErr, rpc, cpc, resp, trustXFF, rlRate, rlCapacity, rlOut,
                   rlLog, callVars>>

\* withRateLimit: allow under b.mu, then 429 with Retry-After or the next handler
RlAllow(r) ==
    /\ rlReq[r].pc = "bucket"
    /\ rlBuckets' = [rlBuckets EXCEPT ![rlReq[r].ip] = allow(@)]
    /\ rlOut' = IF Admits(rlBuckets[rlReq[r].ip])
                THEN [ip |-> rlReq[r].ip, code |-> 200, retryAfter |-> ""]
                ELSE [ip |-> rlReq[r].ip, code |-> 429, retryAfter |-> "1"]
    /\ rlLog' = IF Admits(rlBuckets[rlReq[r].ip])
                THEN [rlLog EXCEPT ![rlReq[r].ip][now] = @ + 1]
                ELSE rlLog
    /\ rlReq' = [rlReq EXCEPT ![r] = NoRlReq]
    /\ UNCHANGED <<cfgVars, metricVars, histVars, now, memVars, dbVars, workerVars, sigVars,
                   ctxErr, rpc, cpc, resp, trustXFF, rlRate, rlCapacity, callVars>>

\* the rate limiter alone, under every configuration of rate, burst and flag
InitRL ==
    /\ InitJobs
    /\ useDB = FALSE
    /\ cgo = FALSE
    /\ maxJobs = 1
    /\ tap = "off"
    /\ trustXFF \in BOOLEAN
    /\ rlRate \in 1..MaxRate
    /\ rlCapacity \in 1..MaxBurst
    /\ rlBuckets = [i \in Idents |-> NoBucket]
    /\ rlReq = [r \in RlReqs |-> NoRlReq]
    /\ rlOut = NoRlOut
    /\ rlLog = [i \in Idents |-> [t \in 1..RlMaxClock |-> 0]]
    /\ inp = NoCall
    /\ out = NoCall

NextRL ==
    \/ RlTick
    \/ \E r \in RlReqs : RlGetBucket(r)
    \/ \E r \in RlReqs : RlAllow(r)

SpecRL == InitRL /\ [][NextRL]_vars

\* ------------------------------------------------------------ requireAPIKey

\* the prefix of the Authorization fallback
BearerPfx == <<"B", "e", "a", "r", "e", "r", " ">>

\* strings.HasPrefix
HasPrefix(str, pfx) ==
    Len(str) >= Len(pfx) /\ SubSeq(str, 1, Len(pfx)) = pfx

\* X-API-Key headers a client may send (<<>>: no header)
KeyHeaders == {<<>>, <<"a">>, <<"b">>, <<" ", "a", " ">>, <<" ">>}

\* Authorization headers a client may send (<<>>: no header)
AuthHeaders ==
    {<<>>, BearerPfx \o <<"a">>, BearerPfx \o <<"b">>, BearerPfx \o <<" ", "a", " ">>,
     <<" ">> \o BearerPfx \o <<"a">>, <<"B", "a", "s", "i", "c", " ", "a">>,
     BearerPfx}

\* the key sets loadAPIKeys can build (trimmed, non-empty entries)
KeySets == SUBSET {<<"a">>, <<"b">>}

\* requireAPIKey: the key it looks up
requestKey(xkey, auth) ==
    IF TrimSpace(xkey) # <<>> THEN TrimSpace(xkey)
    ELSE IF HasPrefix(TrimSpace(auth), BearerPfx)
         THEN TrimSpace(SubSeq(TrimSpace(auth), Len(BearerPfx) + 1, Len(TrimSpace(auth))))
         ELSE <<>>

\* variant: the empty key is a member of every key set
requireAPIKeyEmptyMember(xkey, auth, keys) ==
    IF requestKey(xkey, auth) \in keys \cup {<<>>}
    THEN [f |-> "requireAPIKey", code |-> 0, body |-> "", next |-> TRUE]
    ELSE [f |-> "requireAPIKey", code |-> 401, body |-> "unauthorized", next |-> FALSE]

\* variant: an empty key set switches the check off
requireAPIKeyOptional(xkey, auth, keys) ==
    IF keys = {} \/ requestKey(xkey, auth) \in keys
    THEN [f |-> "requireAPIKey", code |-> 0, body |-> "", next |-> TRUE]
    ELSE [f |-> "requireAPIKey", code |-> 401, body |-> "unauthorized", next |-> FALSE]

\* requireAPIKey: 401 or the next handler
requireAPIKey(xkey, auth, keys) ==
    IF requestKey(xkey, auth) \in keys
    THEN [f |-> "requireAPIKey", code |-> 0, body |-> "", next |-> TRUE]
    ELSE [f |-> "requireAPIKey", code |-> 401, body |-> "unauthorized", next |-> FALSE]

AuthInputs ==
    [f : {"requireAPIKey"}, xkey : KeyHeaders, auth : AuthHeaders, keys : KeySets]

\* a request to a protected route passes through requireAPIKey
AuthRequest ==
    /\ inp.f = "requireAPIKey"
    /\ out = NoCall
    /\ out' = requireAPIKey(inp.xkey, inp.auth, inp.keys)
    /\ UNCHANGED <<cfgVars, metricVars, histVars, now, memVars, dbVars, workerVars, sigVars,
                   ctxErr, rpc, cpc, resp, rlVars, inp>>

\* ----------------------------------------------------------------- clientIP

\* two requests, each with its connection and its X-Forwarded-For header
ClientInputs ==
    [f : {"clientIP"}, trust : BOOLEAN,
     addr1 : RemoteAddrs \cup {<<"g", ":", "1">>}, xff1 : XffHeaders,
     addr2 : RemoteAddrs \cup {<<"g", ":", "1">>}, xff2 : XffHeaders]

\* withRateLimit names the client of each of the two requests
IdentifyClients ==
    /\ inp.f = "clientIP"
    /\ out = NoCall
    /\ out' = [f |-> "clientIP",
               ip1 |-> clientIP(inp.trust, inp.xff1, inp.addr1),
               ip2 |-> clientIP(inp.trust, inp.xff2, inp.addr2)]
    /\ UNCHANGED <<cfgVars, metricVars, histVars, now, memVars, dbVars, workerVars, sigVars,
                   ctxErr, rpc, cpc, resp, rlVars, inp>>

\* ----------------------------------------------------------------- validate

\* types()
types == <<"i32", "u32", "i64", "u64", "f32", "f64", "str">>

\* dists()
dists ==
    <<"random", "partial", "dups", "reverse", "sorted", "saw", "runs", "gauss",
      "exp", "zipf", "organpipe", "staggered", "runs_ht">>

\* the integer and enumerated fields of a RunRequest
RunRequest(n, dist, type, repeats, warmup, threads, timeoutMs, partialPct, dupValues, staggerBlock) ==
    [N |-> n, Dist |-> dist, Type |-> type, Repeats |-> repeats,
     Warmup |-> warmup, Threads |-> threads, TimeoutMs |-> timeoutMs,
     PartialPct |-> partialPct, DupValues |-> dupValues,
     StaggerBlock |-> staggerBlock]

\* the limits validate reads: MAX_N (> 0), MAX_REPEATS (>= 0), MAX_THREADS
Limits == [maxN : 1..MaxNCap, maxRepeats : 0..MaxRepeatsCap, maxThreads : 0..MaxThreadsCap]

\* variant: the upper limit of N is exclusive
validateBelowMaxN(req, lim) ==
    IF req.N <= 0 \/ req.N >= lim.maxN THEN "N must be in [1,maxN]"
    ELSE IF req.Repeats < 0 \/ req.Repeats > lim.maxRepeats THEN "repeats must be in [0,maxRepeats]"
    ELSE IF lim.maxThreads > 0 /\ req.Threads > lim.maxThreads THEN "threads must be <= maxThreads"
    ELSE IF ~(\E i \in 1..Len(dists) : dists[i] = req.Dist) THEN "invalid dist"
    ELSE IF ~(\E i \in 1..Len(types) : types[i] = req.Type) THEN "invalid type"
    ELSE "nil"

\* validate: the error it returns
validate(req, lim) ==
    IF req.N <= 0 \/ req.N > lim.maxN THEN "N must be in [1,maxN]"
    ELSE IF req.Repeats < 0 \/ req.Repeats > lim.maxRepeats THEN "repeats must be in [0,maxRepeats]"
    ELSE IF lim.maxThreads > 0 /\ req.Threads > lim.maxThreads THEN "threads must be <= maxThreads"
    ELSE IF ~(\E i \in 1..Len(dists) : dists[i] = req.Dist) THEN "invalid dist"
    ELSE IF ~(\E i \in 1..Len(types) : types[i] = req.Type) THEN "invalid type"
    ELSE "nil"

\* request bodies that vary N, repeats, threads, dist and type
ShapeRequests ==
    {RunRequest(n, d, t, r, 0, th, 0, 0, 0, 0) :
        n \in -1..(MaxNCap + 1),
        d \in {dists[i] : i \in 1..Len(dists)} \cup {"", "bogus"},
        t \in {types[i] : i \in 1..Len(types)} \cup {"i16"},
        r \in -1..(MaxRepeatsCap + 1),
        th \in -1..(MaxThreadsCap + 1)}

\* request bodies that vary the other integer fields
TunableRequests ==
    {RunRequest(1, "random", "i32", 0, w, th, tm, pp, dv, sb) :
        w \in -1..1, th \in -1..1, tm \in -1..1, pp \in -1..1, dv \in -1..1,
        sb \in -1..1}

ValidateInputs ==
    [f : {"validate"}, req : ShapeRequests, lim : Limits]
    \cup [f : {"validate"}, req : TunableRequests, lim : {[maxN |-> 1, maxRepeats |-> 0, maxThreads |-> 0]}]

\* runHandler / submitJobHandler: validate(&req)
ValidateRequest ==
    /\ inp.f = "validate"
    /\ out = NoCall
    /\ out' = [f |-> "validate", err |-> validate(inp.req, inp.lim)]
    /\ UNCHANGED <<cfgVars, metricVars, histVars, now, memVars, dbVars, workerVars, sigVars,
                   ctxErr, rpc, cpc, resp, rlVars, inp>>

\* ------------------------------------------------------------------- engine

\* Options.repeats of the sortbench command line
DefaultRepeats == 5

\* a command-line flag that is not given
NoFlag == [given |-> FALSE, val |-> 0]

Flag(v) == [given |-> TRUE, val |-> v]

\* buildArgs: --repeat, --warmup and --threads are passed only when > 0
buildArgs(req) ==
    [repeat |-> IF req.Repeats > 0 THEN Flag(req.Repeats) ELSE NoFlag,
     warmup |-> IF req.Warmup > 0 THEN Flag(req.Warmup) ELSE NoFlag,
     threads |-> IF req.Threads > 0 THEN Flag(req.Threads) ELSE NoFlag]

\* sortbench argument parsing: defaults of Options, --repeat <= 0 becomes 1,
\* --warmup < 0 becomes 0
parseArgs(args) ==
    [repeats |-> IF ~args.repeat.given THEN DefaultRepeats
                 ELSE IF args.repeat.val <= 0 THEN 1 ELSE args.repeat.val,
     warmup |-> IF ~args.warmup.given THEN 0
                ELSE IF args.warmup.val < 0 THEN 0 ELSE args.warmup.val,
     threads |-> IF args.threads.given THEN args.threads.val ELSE 0]

\* runCGO: sb_core_config as filled from the request
cgoConfig(req) ==
    [repeats |-> req.Repeats, warmup |-> req.Warmup, threads |-> req.Threads]

\* run_for_type_core: the passes of one selected algorithm
corePasses(cfg) ==
    [warm |-> IF cfg.warmup > 0 THEN cfg.warmup ELSE 0,
     timed |-> IF cfg.repeats > 1 THEN cfg.repeats ELSE 1]

\* validated requests, with either engine
EngineInputs ==
    [f : {"engine"},
     req : {r \in ShapeRequests \cup TunableRequests :
               validate(r, [maxN |-> MaxNCap, maxRepeats |-> MaxRepeatsCap + 1,
                            maxThreads |-> 0]) = "nil"},
     cgo : BOOLEAN]

\* the engine is invoked for a validated request
RunEngine ==
    /\ inp.f = "engine"
    /\ out = NoCall
    /\ out' = [f |-> "engine",
               cfg |-> IF inp.cgo THEN cgoConfig(inp.req) ELSE parseArgs(buildArgs(inp.req)),
               passes |-> corePasses(IF inp.cgo THEN cgoConfig(inp.req)
                                     ELSE parseArgs(buildArgs(inp.req)))]
    /\ UNCHANGED <<cfgVars, metricVars, histVars, now, memVars, dbVars, workerVars, sigVars,
                   ctxErr, rpc, cpc, resp, rlVars, inp>>

\* ------------------------------------------------------- POST /run deadline

\* runHandler: tout, the duration given to context.WithTimeout
runTimeout(timeoutMs, defaultTimeout) ==
    IF timeoutMs > 0 THEN timeoutMs ELSE defaultTimeout

\* validated bodies with their timeout_ms, the server's TIMEOUT_MS (> 0), and
\* the engine in use
TimeoutInputs ==
    [f : {"runTimeout"}, timeoutMs : -1..MaxTimeoutMs,
     defaultTimeout : 1..(MaxTimeoutMs - 1), cgo : BOOLEAN]

\* runHandler: the deadline of the run; only exec.CommandContext receives ctx
RunTimeout ==
    /\ inp.f = "runTimeout"
    /\ out = NoCall
    /\ out' = [f |-> "runTimeout",
               tout |-> runTimeout(inp.timeoutMs, inp.defaultTimeout),
               kills |-> ~inp.cgo]
    /\ UNCHANGED <<cfgVars, metricVars, histVars, now, memVars, dbVars, workerVars, sigVars,
                   ctxErr, rpc, cpc, resp, rlVars, inp>>

\* --------------------------------------------------------- the route table

\* the routes main registers on the mux
Routes == {"healthz", "readyz", "meta", "limits", "run", "jobs_root", "jobs_item"}

\* routes wrapped in withRateLimit
LimitedRoutes == {"run", "jobs_root", "jobs_item"}

\* routes wrapped in requireAPIKey
ProtectedRoutes == {"jobs_root", "jobs_item"}

\* the status codes a response can carry
Codes == {200, 202, 400, 401, 404, 405, 429, 500}

\* sortbench_requests_total of one route, by status label
NoCounts == [c \in Codes |-> 0]

\* what a served request leaves behind: the status written, the client's
\* bucket, and the increments of reqTotal
Served(code, bucket, counts) == [code |-> code, bucket |-> bucket, counts |-> counts]

\* the route's own handler writes status; runHandler also increments
\* reqTotal{run,200} itself on success
routeHandler(route, status, b) ==
    Served(status, b,
           IF route = "run" /\ status = 200
           THEN [NoCounts EXCEPT ![200] = @ + 1] ELSE NoCounts)

\* withMetrics: the wrapped handler, then reqTotal{route, rec.code}
withMetrics(h) == [h EXCEPT !.counts[h.code] = @ + 1]

\* withRateLimit: allow(ip), then 429 or the next handler
withRateLimit(route, status, b) ==
    IF Admits(b)
    THEN withMetrics(routeHandler(route, status, allow(b)))
    ELSE Served(429, allow(b), NoCounts)

\* requireAPIKey in front of the rest: 401 or the next handler
withAPIKey(route, status, b, xkey, auth, keys) ==
    IF requireAPIKey(xkey, auth, keys).next
    THEN withRateLimit(route, status, b)
    ELSE Served(401, b, NoCounts)

\* mux.Handle: the chain registered for the route
serveRoute(route, status, b, xkey, auth, keys) ==
    IF route \in ProtectedRoutes THEN withAPIKey(route, status, b, xkey, auth, keys)
    ELSE IF route \in LimitedRoutes THEN withRateLimit(route, status, b)
    ELSE withMetrics(routeHandler(route, status, b))

\* the client's bucket when the request arrives: full, or empty since this
\* instant
ArrivalBuckets ==
    {[made |-> TRUE, tokens |-> t, lastRefill |-> 1] : t \in {0, PerMinute}}

\* requests to every route, with or without a key, with the status the
\* route's handler would write
ServeInputs ==
    [f : {"serve"}, route : Routes, status : {200, 202, 400, 404, 500},
     bucket : ArrivalBuckets, xkey : {<<>>, <<"a">>, <<"b">>},
     auth : {<<>>, BearerPfx \o <<"a">>}, keys : {{<<"a">>}}]

\* one request is served by the mux
ServeRequest ==
    /\ inp.f = "serve"
    /\ out = NoCall
    /\ out' = [f |-> "serve",
               res |-> serveRoute(inp.route, inp.status, inp.bucket,
                                  inp.xkey, inp.auth, inp.keys)]
    /\ UNCHANGED <<cfgVars, metricVars, histVars, now, memVars, dbVars, workerVars, sigVars,
                   ctxErr, rpc, cpc, resp, rlVars, inp>>

\* --------------------------------------------------------- engine selection

\* the error of the stubs of a build without the sortbench_cgo tag
StubError == "cgo core not enabled; build with -tags sortbench_cgo"

\* runCGO / listAlgosCGO as linked into the binary: the bridge or the stub
cgoCall(built) ==
    IF built THEN [engine |-> "cgo", err |-> "nil"]
    ELSE [engine |-> "none", err |-> StubError]

\* runHandler, the job goroutine, execRun, metaHandler and readyHandler:
\* SORTBENCH_CGO = "1" selects the cgo call, anything else the child process
engineCall(env, built) ==
    IF env THEN cgoCall(built) ELSE [engine |-> "shell", err |-> "nil"]

\* what the caller makes of the call: a response code for POST /run and
\* GET /meta, a terminal status for a job
callOutcome(op, call) ==
    IF op = "job" THEN (IF call.err = "nil" THEN JobDone ELSE JobFailed)
    ELSE (IF call.err = "nil" THEN "200" ELSE "500")

\* an operation that needs the engine, under each configuration and build
ModeInputs ==
    [f : {"engineCall"}, op : {"run", "job", "meta"}, env : BOOLEAN, built : BOOLEAN]

\* the operation calls the engine the configuration selects
SelectEngine ==
    /\ inp.f = "engineCall"
    /\ out = NoCall
    /\ out' = [f |-> "engineCall",
               call |-> engineCall(inp.env, inp.built),
               outcome |-> callOutcome(inp.op, engineCall(inp.env, inp.built))]
    /\ UNCHANGED <<cfgVars, metricVars, histVars, now, memVars, dbVars, workerVars, sigVars,
                   ctxErr, rpc, cpc, resp, rlVars, inp>>

\* ----------------------------------------------------------- request bodies

\* a body: what its first JSON value is, where that value ends, and what
\* follows it up to the body's size (sizes in units of MaxBody = 1 MiB)
Bodies ==
    {b \in [first : {"request", "syntax error", "type error"}, valid : BOOLEAN,
            len : 1..(MaxBody + 1), tail : {"none", "space", "garbage"},
            size : 1..(MaxBody + 2)] :
        /\ b.size >= b.len
        /\ (b.tail = "none") <=> (b.size = b.len)}

\* the RunRequest the first value of the body decodes to
bodyRequest(b) ==
    RunRequest(IF b.valid THEN 1 ELSE 0, "random", "i32", 0, 0, 0, 0, 0, 0, 0)

\* json.NewDecoder(http.MaxBytesReader(w, r.Body, 1<<20)).Decode(&req): the
\* decoder reads up to the end of the first JSON value and no further
Decode(b) ==
    IF b.first = "syntax error" THEN "invalid character"
    ELSE IF b.len > MaxBody THEN "http: request body too large"
    ELSE IF b.first = "type error" THEN "cannot unmarshal"
    ELSE "nil"

\* what a handler did: the response and its effects
Handled(code, created, submitted, engine) ==
    [code |-> code, created |-> created, submitted |-> submitted, engine |-> engine]

\* submitJobHandler and runHandler up to the point where the work starts
handleBody(route, b, lim) ==
    IF Decode(b) # "nil" THEN Handled(400, FALSE, 0, FALSE)
    ELSE IF validate(bodyRequest(b), lim) # "nil" THEN Handled(400, FALSE, 0, FALSE)
    ELSE IF route = "jobs" THEN Handled(202, TRUE, 1, TRUE)
    ELSE Handled(200, FALSE, 0, TRUE)

BodyInputs == [f : {"handleBody"}, route : {"run", "jobs"}, body : Bodies]

\* POST /run or POST /jobs with the body
HandleBody ==
    /\ inp.f = "handleBody"
    /\ out = NoCall
    /\ out' = [f |-> "handleBody",
               res |-> handleBody(inp.route, inp.body,
                                  [maxN |-> 1, maxRepeats |-> 0, maxThreads |-> 0])]
    /\ UNCHANGED <<cfgVars, metricVars, histVars, now, memVars, dbVars, workerVars, sigVars,
                   ctxErr, rpc, cpc, resp, rlVars, inp>>

\* ------------------------------------------- engine configuration, by mode

\* CoreConfig: the defaults of the distribution tunables (zipf_s and
\* runs_alpha in tenths); Options of the command line has the same values
CoreDefaults ==
    [partial_shuffle_pct |-> 10, dup_values |-> 100, zipf_s |-> 12,
     runs_alpha |-> 15, stagger_block |-> 32]

\* to_lower, on the names used here
to_lower(s) ==
    IF s = "Std_Sort" THEN "std_sort" ELSE s

\* buildArgs: p != ""; the command line: !cur.empty()
NonEmptyName(s) == s # ""

\* requests that vary seed, algos, plugins, baseline and the tunables
ConfigRequests ==
    [Seed : {NoFlag, Flag(1)},
     Algos : {<<>>, <<"std_sort">>, <<"Std_Sort", "heap_sort">>, <<"">>},
     Plugins : {<<>>, <<"a.so">>, <<"", "a.so">>},
     Baseline : {NoFlag, [given |-> TRUE, val |-> ""], [given |-> TRUE, val |-> "std_sort"]},
     PartialPct : {0, 50}, DupValues : {0, 7}, ZipfS : {0, 20},
     RunsAlpha : {0, 20}, StaggerBlock : {0, 8}]

\* buildArgs: the flags after --repeat and --warmup. The value of --algo is
\* the names joined by commas, kept here as the list of its pieces.
buildArgsConfig(req) ==
    [seed |-> req.Seed,
     partial_pct |-> IF req.PartialPct > 0 THEN Flag(req.PartialPct) ELSE NoFlag,
     dups_k |-> IF req.DupValues > 0 THEN Flag(req.DupValues) ELSE NoFlag,
     zipf_s |-> IF req.ZipfS > 0 THEN Flag(req.ZipfS) ELSE NoFlag,
     runs_alpha |-> IF req.RunsAlpha > 0 THEN Flag(req.RunsAlpha) ELSE NoFlag,
     stagger_block |-> IF req.StaggerBlock > 0 THEN Flag(req.StaggerBlock) ELSE NoFlag,
     algo |-> IF Len(req.Algos) > 0 THEN [given |-> TRUE, val |-> req.Algos]
              ELSE [given |-> FALSE, val |-> <<>>],
     baseline |-> IF req.Baseline.given /\ req.Baseline.val # "" THEN req.Baseline
                  ELSE NoFlag,
     plugin |-> SelectSeq(req.Plugins, NonEmptyName)]

\* sortbench argument parsing and the CoreConfig main fills from Options;
\* JSON output carries speedup_vs_baseline when --baseline was given
parseArgsConfig(args) ==
    [seed |-> args.seed,
     algos |-> IF args.algo.given
               THEN [i \in 1..Len(SelectSeq(args.algo.val, NonEmptyName)) |->
                        to_lower(SelectSeq(args.algo.val, NonEmptyName)[i])]
               ELSE <<>>,
     plugin_paths |-> args.plugin,
     baseline |-> args.baseline,
     partial_shuffle_pct |->
        IF ~args.partial_pct.given THEN CoreDefaults.partial_shuffle_pct
        ELSE IF args.partial_pct.val < 0 THEN 0
        ELSE IF args.partial_pct.val > 100 THEN 100 ELSE args.partial_pct.val,
     dup_values |->
        IF ~args.dups_k.given THEN CoreDefaults.dup_values
        ELSE IF args.dups_k.val < 1 THEN 1 ELSE args.dups_k.val,
     zipf_s |-> IF args.zipf_s.given /\ args.zipf_s.val > 0 THEN args.zipf_s.val
                ELSE CoreDefaults.zipf_s,
     runs_alpha |-> IF args.runs_alpha.given /\ args.runs_alpha.val > 0
                    THEN args.runs_alpha.val ELSE CoreDefaults.runs_alpha,
     stagger_block |-> IF args.stagger_block.given /\ args.stagger_block.val > 0
                       THEN args.stagger_block.val ELSE CoreDefaults.stagger_block,
     speedup |-> args.baseline.given]

\* runCGO: the sb_core_config filled from the request
runCGO(req) ==
    [seed |-> req.Seed,
     algos |-> req.Algos,
     plugin_paths |-> req.Plugins,
     baseline |-> IF req.Baseline.given /\ req.Baseline.val # "" THEN req.Baseline
                  ELSE NoFlag,
     partial_shuffle_pct |-> IF req.PartialPct > 0 THEN req.PartialPct ELSE 10,
     dup_values |-> IF req.DupValues > 0 THEN req.DupValues ELSE 100,
     zipf_s |-> IF req.ZipfS > 0 THEN req.ZipfS ELSE 0,
     runs_alpha |-> IF req.RunsAlpha > 0 THEN req.RunsAlpha ELSE 0,
     stagger_block |-> IF req.StaggerBlock > 0 THEN req.StaggerBlock ELSE 0]

\* sb_run_json: the CoreConfig built from sb_core_config; zipf_s, runs_alpha
\* and stagger_block are not copied and keep the CoreConfig defaults
sb_run_json(c, include_speedup) ==
    [seed |-> c.seed,
     algos |-> c.algos,
     plugin_paths |-> c.plugin_paths,
     baseline |-> c.baseline,
     partial_shuffle_pct |-> c.partial_shuffle_pct,
     dup_values |-> c.dup_values,
     zipf_s |-> CoreDefaults.zipf_s,
     runs_alpha |-> CoreDefaults.runs_alpha,
     stagger_block |-> CoreDefaults.stagger_block,
     speedup |-> include_speedup # 0]

ConfigInputs == [f : {"config"}, req : ConfigRequests]

\* one request given to the child process and to the in-process engine;
\* runCGO calls sb_run_json(&cfg, 0, 1, &errOut)
ConfigureEngine ==
    /\ inp.f = "config"
    /\ out = NoCall
    /\ out' = [f |-> "config",
               shell |-> parseArgsConfig(buildArgsConfig(inp.req)),
               cgo |-> sb_run_json(runCGO(inp.req), 0)]
    /\ UNCHANGED <<cfgVars, metricVars, histVars, now, memVars, dbVars, workerVars, sigVars,
                   ctxErr, rpc, cpc, resp, rlVars, inp>>

\* ------------------------------------------- plugins and the benchmark run

\* the longest list of plugin paths of one run
MaxPlugins == 2

\* element types of a run: int, float (a second v2 pointer) and std::string
\* (no v2 pointer and no v1 support)
ElemTypes == {"i32", "f32", "str"}

\* what a plugin file is: whether dlopen succeeds, and for each exported
\* get_algorithms symbol the value it returns and the table it hands out.
\* An entry's run_* field says whether the pointer is non-null.
Libraries ==
    {[opens |-> FALSE, v2 |-> [exported |-> FALSE, ok |-> FALSE, arr |-> <<>>],
      v1 |-> [exported |-> FALSE, ok |-> FALSE, arr |-> <<>>]]}
    \cup
    [opens : {TRUE},
     v2 : {[exported |-> FALSE, ok |-> FALSE, arr |-> <<>>],
           [exported |-> TRUE, ok |-> FALSE, arr |-> <<>>],
           [exported |-> TRUE, ok |-> TRUE, arr |-> <<>>],
           [exported |-> TRUE, ok |-> TRUE,
            arr |-> <<[name |-> "NULL", run_i32 |-> TRUE, run_f32 |-> TRUE]>>]}
          \cup {[exported |-> TRUE, ok |-> TRUE,
                 arr |-> <<[name |-> "p2", run_i32 |-> a, run_f32 |-> b]>>] :
                     a \in BOOLEAN, b \in BOOLEAN},
     v1 : {[exported |-> FALSE, ok |-> FALSE, arr |-> <<>>],
           [exported |-> TRUE, ok |-> FALSE, arr |-> <<>>],
           [exported |-> TRUE, ok |-> TRUE, arr |-> <<[name |-> "p1", run_int |-> TRUE]>>],
           [exported |-> TRUE, ok |-> TRUE, arr |-> <<[name |-> "p1", run_int |-> FALSE]>>]}]

\* build_registry_t<T>: the built-in algorithms (lib 0), two of them here
build_registry_t(T) ==
    <<[name |-> "std_sort", lib |-> 0], [name |-> "heap_sort", lib |-> 0]>>

\* load_plugins_t: the if constexpr chain over T picks the v2 pointer
v2Usable(a, T) ==
    /\ a.name # "NULL"
    /\ IF T = "i32" THEN a.run_i32 ELSE IF T = "f32" THEN a.run_f32 ELSE FALSE

\* load_plugins_t: the v1 loop, compiled for int only
v1Usable(a, T) ==
    T = "i32" /\ a.name # "NULL" /\ a.run_int

Names(arr) == [i \in 1..Len(arr) |-> arr[i].name]

\* variant: a v2 table with nothing for T falls back to v1
load_pluginFallback(lib, T) ==
    LET n2 == Names(SelectSeq(lib.v2.arr, LAMBDA a : v2Usable(a, T)))
        n1 == Names(SelectSeq(lib.v1.arr, LAMBDA a : v1Usable(a, T)))
    IN  IF ~lib.opens THEN [opened |-> FALSE, called |-> {}, names |-> <<>>]
        ELSE IF lib.v2.exported /\ lib.v2.ok /\ n2 # <<>>
        THEN [opened |-> TRUE, called |-> {"v2"}, names |-> n2]
        ELSE IF ~lib.v1.exported
        THEN [opened |-> TRUE, called |-> IF lib.v2.exported THEN {"v2"} ELSE {}, names |-> <<>>]
        ELSE [opened |-> TRUE,
              called |-> IF lib.v2.exported THEN {"v2", "v1"} ELSE {"v1"},
              names |-> IF lib.v1.ok THEN n1 ELSE <<>>]

\* load_plugins_t, one pass of the loop over paths: whether dlopen gave a
\* handle, which get_algorithms functions were called, the names registered
load_plugin(lib, T) ==
    IF ~lib.opens THEN [opened |-> FALSE, called |-> {}, names |-> <<>>]
    ELSE IF lib.v2.exported
    THEN [opened |-> TRUE, called |-> {"v2"},
          names |-> IF ~lib.v2.ok \/ Len(lib.v2.arr) <= 0 THEN <<>>
                    ELSE Names(SelectSeq(lib.v2.arr, LAMBDA a : v2Usable(a, T)))]
    ELSE IF ~lib.v1.exported
    THEN [opened |-> TRUE, called |-> {}, names |-> <<>>]
    ELSE [opened |-> TRUE, called |-> {"v1"},
          names |-> IF ~lib.v1.ok \/ Len(lib.v1.arr) <= 0 THEN <<>>
                    ELSE Names(SelectSeq(lib.v1.arr, LAMBDA a : v1Usable(a, T)))]

\* load_plugins_t: regs and handles after the paths from i on, with the
\* dlopen and dlclose calls made; a handle is kept when a name was added
RECURSIVE load_plugins_t(_, _, _, _)
load_plugins_t(libs, T, i, acc) ==
    IF i > Len(libs) THEN acc
    ELSE LET l == load_plugin(libs[i], T)
             opened == IF l.opened THEN <<[op |-> "dlopen", lib |-> i]>> ELSE <<>>
             closed == IF l.opened /\ l.names = <<>>
                       THEN <<[op |-> "dlclose", lib |-> i]>> ELSE <<>>
         IN  load_plugins_t(libs, T, i + 1,
                 [regs |-> acc.regs \o [k \in 1..Len(l.names) |-> [name |-> l.names[k], lib |-> i]],
                  handles |-> IF l.names # <<>> THEN Append(acc.handles, i) ELSE acc.handles,
                  called |-> Append(acc.called, l.called),
                  events |-> acc.events \o opened \o closed])

\* variant: an empty selection selects nothing
name_selectedNone(selected, name) ==
    \E i \in 1..Len(selected) : selected[i] = to_lower(name)

\* name_selected, without regular expressions (the API passes none)
name_selected(selected, name) ==
    IF selected = <<>> THEN TRUE
    ELSE \E i \in 1..Len(selected) : selected[i] = to_lower(name)

\* run_for_type_core: the loop over regs from i on. benchmark_once_t throws
\* when assert_sorted is set and the output is not sorted, which only a
\* plugin's algorithm can cause here.
RECURSIVE benchmarkAll(_, _, _, _)
benchmarkAll(regs, cfg, i, acc) ==
    IF i > Len(regs) THEN acc
    ELSE IF ~name_selected(cfg.algos, regs[i].name) THEN benchmarkAll(regs, cfg, i + 1, acc)
    ELSE IF cfg.assert_sorted /\ regs[i].lib # 0 /\ cfg.unsorted
    THEN [rows |-> acc.rows,
          events |-> Append(acc.events, [op |-> "run", lib |-> regs[i].lib]),
          err |-> "Assertion failed: output not sorted"]
    ELSE benchmarkAll(regs, cfg, i + 1,
             [rows |-> Append(acc.rows, regs[i].name),
              events |-> Append(acc.events, [op |-> "run", lib |-> regs[i].lib]),
              err |-> "nil"])

\* run_for_type_core: registry, plugins, passes, rows, then dlclose of the
\* kept handles; an exception leaves the function before the dlclose loop
run_for_type_core(cfg) ==
    LET ld == load_plugins_t(cfg.libs, cfg.type, 1,
                  [regs |-> build_registry_t(cfg.type), handles |-> <<>>,
                   called |-> <<>>, events |-> <<>>])
        r == benchmarkAll(ld.regs, cfg, 1, [rows |-> <<>>, events |-> ld.events, err |-> "nil"])
    IN  [f |-> "bench", regs |-> ld.regs, called |-> ld.called, err |-> r.err,
         rows |-> IF r.err = "nil" THEN r.rows ELSE <<>>,
         events |-> IF r.err # "nil" THEN r.events
                    ELSE r.events \o [k \in 1..Len(ld.handles) |->
                                         [op |-> "dlclose", lib |-> ld.handles[k]]]]

\* CoreConfig of a run and the plugin files behind plugin_paths; unsorted
\* says whether the plugins' algorithms leave their input unsorted
BenchInputs ==
    [f : {"bench"}, type : ElemTypes,
     algos : {<<>>, <<"does_not_exist">>, <<"heap_sort", "p1", "nope">>, <<"p2">>},
     assert_sorted : BOOLEAN, unsorted : BOOLEAN,
     libs : UNION {[1..n -> Libraries] : n \in 0..MaxPlugins}]

\* run_benchmark
RunBenchmark ==
    /\ inp.f = "bench"
    /\ out = NoCall
    /\ out' = run_for_type_core(inp)
    /\ UNCHANGED <<cfgVars, metricVars, histVars, now, memVars, dbVars, workerVars, sigVars,
                   ctxErr, rpc, cpc, resp, rlVars, inp>>

\* ------------------------------------ the functions of a request, one call
InitCall ==
    /\ InitJobs
    /\ useDB = FALSE
    /\ cgo = FALSE
    /\ maxJobs = 1
    /\ tap = "off"
    /\ trustXFF = FALSE
    /\ rlRate = 1
    /\ rlCapacity = 1
    /\ rlBuckets = [i \in Idents |-> NoBucket]
    /\ rlReq = [r \in RlReqs |-> NoRlReq]
    /\ rlOut = NoRlOut
    /\ rlLog = [i \in Idents |-> [t \in 1..RlMaxClock |-> 0]]
    /\ inp \in AuthInputs \cup ClientInputs \cup ValidateInputs \cup EngineInputs
                \cup TimeoutInputs \cup ServeInputs \cup ModeInputs
                \cup BenchInputs
                \cup ConfigInputs
                \cup BodyInputs
    /\ out = NoCall

NextCall ==
    \/ AuthRequest
    \/ IdentifyClients
    \/ ValidateRequest
    \/ RunEngine
    \/ RunTimeout
    \/ ServeRequest
    \/ SelectEngine
    \/ RunBenchmark
    \/ ConfigureEngine
    \/ HandleBody

SpecCall == InitCall /\ [][NextCall]_vars

\* ---------------------------------------------------------------- claims

\* the order pending -> running -> terminal of the in-memory store
MemStep(a, b) ==
    \/ a = b
    \/ a = "none" /\ b = JobPending
    \/ a = JobPending /\ b = JobRunning
    \/ a = JobRunning /\ b \in Terminal

\* the same for a row, with pending -> canceled
DbStep(a, b) ==
    \/ MemStep(a, b)
    \/ a = JobPending /\ b = JobCanceled

\* C1: in both stores every change of a job's status follows pending ->
\* running -> {done, failed, canceled} (a row also pending -> canceled), so
\* running is entered at most once and a terminal status never changes.
C1_Lifecycle ==
    [][\A s \in Slots :
          /\ MemStep(jobs[s].Status, jobs'[s].Status)
          /\ DbStep(rows[s].status, rows'[s].status)]_vars

\* C1 witness: a leased row reached a terminal status while another row was
\* canceled out of pending.
C1_Witness ==
    \E s, t \in Slots :
        /\ rows[s].status \in Terminal /\ rows[s].started_at # NullNum
        /\ rows[t].status = JobCanceled /\ rows[t].started_at = NullNum

\* C2: with MaxJobs >= 1 the number of pending or running jobs never exceeds
\* MaxJobs.
C2_Admission ==
    maxJobs >= 1 =>
        /\ Cardinality({s \in Slots : jobs[s].Status \in Active}) <= maxJobs
        /\ dbActiveCount <= maxJobs

\* a job's record is terminal after the step and was not before
BecomesTerminal(s) ==
    \/ jobs[s].Status \notin Terminal /\ jobs'[s].Status \in Terminal
    \/ rows[s].status \notin Terminal /\ rows'[s].status \in Terminal

\* C3: a job whose cancel was answered while its run was in progress ends
\* canceled, with its duration recorded (never done or failed).
C3_CancelWins ==
    [][\A s \in Slots :
          (BecomesTerminal(s) /\ (hit[s] \/ hit'[s])) =>
              IF useDB
              THEN rows'[s].status = JobCanceled /\ rows'[s].duration_ms # NullNum
              ELSE jobs'[s].Status = JobCanceled /\ jobs'[s].FinishedAt # 0]_vars

\* C4: an in-memory job whose context was done when the engine returned ends
\* canceled; one whose engine returned successfully before that ends done.
C4_RaceOutcome ==
    [][\A s \in Slots :
          (gpc[s] = "commit" /\ gpc'[s] = "exit" /\ tok[s].set) =>
              /\ tok[s].fired => jobs'[s].Status = JobCanceled
              /\ (~tok[s].fired /\ tok[s].ok) => jobs'[s].Status = JobDone]_vars

\* C5: in durable mode the engine is invoked at most once per job, a job is
\* held by at most one worker, and only while its row is running.
C5_AtMostOnce ==
    useDB =>
        \A s \in Slots :
            /\ execs[s] <= 1
            /\ Cardinality({w \in Workers : wjob[w] = s}) <= 1
            /\ (\E w \in Workers : wjob[w] = s) => rows[s].status = JobRunning

\* C5 witness: a job failed, was run once, and every worker is back at the
\* head of its loop with nothing leased.
C5_Witness ==
    /\ useDB
    /\ sig = "wait"
    /\ \E s \in Slots : rows[s].status \in {JobFailed, JobCanceled} /\ execs[s] = 1
    /\ \A w \in Workers : wpc[w] = "loop"


\* a row canceled while it was pending
CanceledPending(s) ==
    rows[s].status = JobCanceled /\ rows[s].started_at = NullNum

C7_CanceledPendingStays ==
    [][\A s \in Slots :
          CanceledPending(s) =>
              /\ rows'[s] = rows[s]
              /\ execs'[s] = 0
              /\ \A w \in Workers : wjob'[w] # s]_vars

\* C7 witness: a row canceled while pending, with a worker free to lease.
C7_Witness ==
    \E s \in Slots :
        /\ CanceledPending(s)
        /\ sig = "wait"
        /\ \E w \in Workers : wpc[w] = "loop"

\* the job an id names is terminal
TerminalId(id) ==
    IF useDB THEN Row(id).status \in Terminal
    ELSE Lookup(id) # 0 /\ jobs[Lookup(id)].Status \in Terminal

\* C8: once a job is terminal no step changes its record, so GET keeps
\* answering the same payload, and a cancel of it is answered 200.
C8_TerminalFrame ==
    [][/\ \A s \in Slots :
             /\ jobs[s].Status \in Terminal =>
                   /\ jobs'[s] = jobs[s]
                   /\ JobJSON(jobs'[s]) = JobJSON(jobs[s])
             /\ rows[s].status \in Terminal =>
                   /\ rows'[s] = rows[s]
                   /\ GetDBResponse(s)' = GetDBResponse(s)
       /\ (resp' # resp /\ resp'.route = "cancel" /\ TerminalId(resp'.id)) =>
             resp'.code = 200]_vars

\* C8 witness: the last response is the 200 of a cancel of a job that is done.
C8_Witness ==
    /\ resp.route = "cancel"
    /\ resp.code = 200
    /\ IF useDB THEN Row(resp.id).status = JobDone
       ELSE Lookup(resp.id) # 0 /\ jobs[Lookup(resp.id)].Status = JobDone

\* C9: in both stores a result is present exactly when the status is done.
C9_ResultIffDone ==
    \A s \in Slots :
        /\ (JobJSON(jobs[s]).result # Absent) <=> (jobs[s].Status = JobDone)
        /\ (rows[s].result_json # NullText) <=> (rows[s].status = JobDone)

\* C9 witness: one job is done with its result and another ended without.
C9_Witness ==
    \E s, t \in Slots :
        /\ jobs[s].Status = JobDone /\ jobs[s].ResultJSON = "rows"
        /\ jobs[t].Status \in {JobFailed, JobCanceled}

\* C10: in both stores an error is recorded exactly when the status is
\* failed or canceled.
C10_ErrorIffFailedOrCanceled ==
    \A s \in Slots :
        /\ (jobs[s].Error # "") <=> (jobs[s].Status \in {JobFailed, JobCanceled})
        /\ (rows[s].error # NullText) <=> (rows[s].status \in {JobFailed, JobCanceled})

\* C11: in both stores, a record with started_at and finished_at both set
\* has duration_ms = finished_at - started_at.
C11_DurationIsFinishedMinusStarted ==
    \A s \in Slots :
        /\ (jobs[s].StartedAt # 0 /\ jobs[s].FinishedAt # 0) =>
              jobs[s].DurationMs = jobs[s].FinishedAt - jobs[s].StartedAt
        /\ (rows[s].started_at # NullNum /\ rows[s].finished_at # NullNum) =>
              rows[s].duration_ms = rows[s].finished_at - rows[s].started_at

\* the requests of identity i admitted at the instants t0..t1
RECURSIVE Admitted(_, _, _)
Admitted(i, t0, t1) ==
    IF t0 > t1 THEN 0 ELSE rlLog[i][t0] + Admitted(i, t0 + 1, t1)

\* the last instant of the 60-second window that starts at t0
WindowEnd(t0) ==
    IF t0 + (PerMinute \div TickSeconds) > RlMaxClock THEN RlMaxClock
    ELSE t0 + (PerMinute \div TickSeconds)

\* C12: for every client identity and every 60-second window, the requests
\* admitted are at most capacity + rate per minute.
C12_WindowBound ==
    \A i \in Idents, t0 \in 1..RlMaxClock :
        Admitted(i, t0, WindowEnd(t0)) <= rlCapacity + rlRate

\* C12 witness: one identity used up a whole window's allowance and was then
\* refused.
C12_Witness ==
    /\ rlOut.code = 429
    /\ \E t0 \in 1..RlMaxClock :
          Admitted(rlOut.ip, t0, WindowEnd(t0)) = rlCapacity + rlRate

\* the balance the decision of request r is taken on: the old balance plus
\* elapsed seconds * rate / 60, at most the capacity (in sixtieths)
Balance(r) ==
    LET b == rlBuckets[rlReq[r].ip]
        raw == b.tokens + (now - b.lastRefill) * TickSeconds * rlRate
    IN  IF raw > PerMinute * rlCapacity THEN PerMinute * rlCapacity ELSE raw

\* C13: a decision admits iff the refilled, clamped balance is at least one
\* token, takes exactly one token on admit and none on refusal (429 with
\* Retry-After), touches no other bucket; a new bucket starts at capacity and
\* every balance stays within [0, capacity].
C13_Decision ==
    [][/\ \A r \in RlReqs :
             (rlReq[r].pc = "bucket" /\ rlReq'[r].pc = "idle") =>
                 /\ (rlOut'.code = 200) <=> (Balance(r) >= PerMinute)
                 /\ rlOut'.code = 200 =>
                       rlBuckets'[rlReq[r].ip].tokens = Balance(r) - PerMinute
                 /\ rlOut'.code # 200 =>
                       /\ rlOut'.code = 429 /\ rlOut'.retryAfter # ""
                       /\ rlBuckets'[rlReq[r].ip].tokens = Balance(r)
                 /\ \A i \in Idents \ {rlReq[r].ip} : rlBuckets'[i] = rlBuckets[i]
       /\ \A i \in Idents :
             /\ (~rlBuckets[i].made /\ rlBuckets'[i].made) =>
                   rlBuckets'[i].tokens = PerMinute * rlCapacity
             /\ rlBuckets'[i].tokens >= 0
             /\ rlBuckets'[i].tokens <= PerMinute * rlCapacity]_vars

\* C13 witness: a refusal left a balance of part of a token in the bucket.
C13_Witness ==
    /\ rlOut.code = 429
    /\ rlBuckets[rlOut.ip].tokens > 0
    /\ rlBuckets[rlOut.ip].tokens < PerMinute

\* the key an Authorization header carries as a Bearer token (<<>>: none)
BearerKeyOf(auth) ==
    IF HasPrefix(TrimSpace(auth), BearerPfx)
    THEN TrimSpace(SubSeq(TrimSpace(auth), Len(BearerPfx) + 1, Len(TrimSpace(auth))))
    ELSE <<>>

\* C14: a request to a protected route none of whose keys (X-API-Key,
\* Bearer) is in the key set is answered 401 "unauthorized" and does not
\* reach the route handler; a request with a known X-API-Key reaches it.
C14_Unauthorized ==
    out.f = "requireAPIKey" =>
        /\ (TrimSpace(inp.xkey) \notin inp.keys /\ BearerKeyOf(inp.auth) \notin inp.keys) =>
              (out.code = 401 /\ out.body = "unauthorized" /\ ~out.next)
        /\ TrimSpace(inp.xkey) \in inp.keys => (out.next /\ out.code # 401)
        /\ out.next <=> out.code # 401

\* C14 witness: keys are loaded and a request with an unknown X-API-Key was
\* answered 401.
C14_Witness ==
    /\ out.f = "requireAPIKey"
    /\ inp.keys = {<<"a">>}
    /\ inp.xkey = <<"b">>
    /\ out.code = 401

\* the host of a remote address of the model (hosts are one character)
HostOf(addr) == <<Head(addr)>>

\* C15: with TRUST_XFF clear the identity is the host of the remote address,
\* so two requests from the same remote address get the same identity
\* whatever their X-Forwarded-For; with the flag set the first entry of a
\* non-empty X-Forwarded-For is the identity.
C15_Identity ==
    out.f = "clientIP" =>
        /\ ~inp.trust =>
              /\ out.ip1 = HostOf(inp.addr1)
              /\ out.ip2 = HostOf(inp.addr2)
              /\ inp.addr1 = inp.addr2 => out.ip1 = out.ip2
        /\ inp.trust =>
              /\ out.ip1 = IF inp.xff1 # <<>> THEN TrimSpace(FirstPart(inp.xff1, ","))
                           ELSE HostOf(inp.addr1)
              /\ out.ip2 = IF inp.xff2 # <<>> THEN TrimSpace(FirstPart(inp.xff2, ","))
                           ELSE HostOf(inp.addr2)

\* C15 witness: flag clear, same remote address, different X-Forwarded-For
\* headers, one identity.
C15_Witness ==
    /\ out.f = "clientIP"
    /\ ~inp.trust
    /\ inp.addr1 = inp.addr2
    /\ inp.xff1 # <<>> /\ inp.xff2 = <<>>
    /\ out.ip1 = out.ip2

\* the thirteen distributions and the seven element types
ThirteenDists ==
    {"random", "partial", "dups", "reverse", "sorted", "saw", "runs", "gauss",
     "exp", "zipf", "organpipe", "staggered", "runs_ht"}

SevenTypes == {"i32", "u32", "i64", "u64", "f32", "f64", "str"}

\* what the claim asks of an accepted request
Acceptable(req, lim) ==
    /\ 1 <= req.N /\ req.N <= lim.maxN
    /\ 0 <= req.Repeats /\ req.Repeats <= lim.maxRepeats
    /\ req.Dist \in ThirteenDists
    /\ req.Type \in SevenTypes
    /\ lim.maxThreads > 0 => req.Threads <= lim.maxThreads

\* C16: validate accepts exactly the requests with 1 <= N <= MaxN,
\* 0 <= repeats <= MaxRepeats, one of the thirteen distributions, one of the
\* seven types and threads <= MaxThreads when MaxThreads > 0; so N = 0 and
\* N = MaxN + 1 are rejected and N = MaxN is accepted.
C16_ValidateBounds ==
    out.f = "validate" =>
        /\ (out.err = "nil") <=> Acceptable(inp.req, inp.lim)
        /\ (inp.req.N = 0 \/ inp.req.N = inp.lim.maxN + 1) => out.err # "nil"
        /\ Cardinality(ThirteenDists) = 13
        /\ Cardinality(SevenTypes) = 7

\* C16 witness: a request with N = MaxN, repeats = 0 and one of the newer
\* distributions was accepted.
C16_Witness ==
    /\ out.f = "validate"
    /\ out.err = "nil"
    /\ inp.req.N = inp.lim.maxN
    /\ inp.req.Repeats = 0
    /\ inp.req.Dist = "runs_ht"

\* C17: a request validate accepts carries no negative integer field.
C17_NoNegativeAccepted ==
    (out.f = "validate" /\ out.err = "nil") =>
        /\ inp.req.N >= 0 /\ inp.req.Repeats >= 0
        /\ inp.req.Threads >= 0 /\ inp.req.Warmup >= 0 /\ inp.req.TimeoutMs >= 0
        /\ inp.req.PartialPct >= 0 /\ inp.req.DupValues >= 0
        /\ inp.req.StaggerBlock >= 0

\* C20: for a validated request either engine performs warmup untimed passes
\* and exactly max(1, repeats) timed passes per algorithm.
C20_Passes ==
    out.f = "engine" =>
        /\ out.passes.warm = (IF inp.req.Warmup > 0 THEN inp.req.Warmup ELSE 0)
        /\ out.passes.timed = (IF inp.req.Repeats > 1 THEN inp.req.Repeats ELSE 1)

\* the pending or running job records the store holds
StoreActive ==
    IF useDB
    THEN Cardinality({s \in Slots : rows[s].status \in Active})
    ELSE Cardinality({id \in Times : m[id] # 0 /\ jobs[m[id]].Status \in Active})

\* the record a 202 names exists and is pending
Created(id) ==
    IF useDB THEN id \in Slots /\ rows'[id].status = JobPending
    ELSE id \in Times /\ m'[id] # 0 /\ jobs'[m'[id]].Status = JobPending

\* C18: a POST /jobs handled while the store holds MaxJobs or more pending or
\* running jobs is answered 429 "too many jobs", creates no record and
\* starts no run, then and later; one handled below the cap is admitted and
\* answered 202 with the id of a new pending record.
C18_CapRefusal ==
    [][\A s \in Slots :
          /\ (rpc[s] = "idle" /\ rpc'[s] # "idle" /\ StoreActive >= maxJobs) =>
                /\ rpc'[s] = "429"
                /\ resp'.route = "submit" /\ resp'.code = 429
                /\ resp'.msg = "too many jobs"
                /\ jobs' = jobs /\ m' = m /\ rows' = rows
                /\ gpc' = gpc /\ wpc' = wpc /\ execs' = execs
          /\ (rpc[s] = "idle" /\ rpc'[s] # "idle" /\ StoreActive < maxJobs) =>
                rpc'[s] = "admitted"
          /\ (rpc[s] = "admitted" /\ rpc'[s] # "admitted") =>
                /\ rpc'[s] = "202"
                /\ resp'.route = "submit" /\ resp'.code = 202
                /\ Created(resp'.id)
          /\ rpc[s] = "429" =>
                /\ rpc'[s] = "429"
                /\ jobs'[s] = NoJob /\ rows'[s] = NoRow /\ gpc'[s] = "idle"]_vars

\* C18 witness: one submission was answered 202, and the next, made while
\* that job was pending or running, was answered 429 and left no record.
C18_Witness ==
    \E s, t \in Slots :
        /\ rpc[s] = "202" /\ rpc[t] = "429"
        /\ resp.code = 429
        /\ jobs[t] = NoJob /\ rows[t] = NoRow
        /\ StoreActive >= maxJobs

\* the id names a job of the store
NamesJob(id) ==
    IF useDB THEN Row(id).status # "none" ELSE Lookup(id) # 0

\* C19: GET and cancel of an id that names no job answer 404 and change no
\* state, in both stores.
C19_NotFound ==
    [][(resp' # resp /\ resp'.route \in {"get", "cancel"} /\ ~NamesJob(resp'.id)) =>
          /\ resp'.code = 404
          /\ jobs' = jobs /\ m' = m /\ rows' = rows
          /\ ctxErr' = ctxErr /\ running' = running]_vars

\* C21: a synchronous POST /run executes under the deadline
\* min(timeout_ms, default timeout) when the request supplies a timeout, and
\* under the default otherwise: never beyond the default.
C21_DeadlineIsMin ==
    out.f = "runTimeout" =>
        /\ out.tout <= inp.defaultTimeout
        /\ out.tout = (IF inp.timeoutMs > 0 /\ inp.timeoutMs < inp.defaultTimeout
                       THEN inp.timeoutMs ELSE inp.defaultTimeout)

\* C22: after the interrupt signal every job that was pending or running
\* when it arrived has its cancel token signalled and then reaches a terminal
\* status. For a durable job: a row that is running once the signal has
\* arrived (it was leased before, as no lease is taken after it) eventually
\* becomes terminal.
C22_SignalledJobsEnd ==
    \A s \in Slots :
        (sig # "wait" /\ rows[s].status = JobRunning) ~> (rows[s].status \in Terminal)

\* C23: an accepted job whose engine returned an error while neither a cancel
\* nor the deadline had fired ends failed with the engine's message, its
\* POST /jobs having answered 202; a cancel that arrives after the engine
\* returned does not make it canceled.
C23_EngineErrorFails ==
    [][\A s \in Slots :
          (gpc[s] = "commit" /\ gpc'[s] = "exit"
              /\ tok[s].set /\ ~tok[s].fired /\ ~tok[s].ok) =>
                /\ rpc[s] = "202"
                /\ jobs'[s].Status = JobFailed
                /\ jobs'[s].Error = gerr[s]]_vars

\* C24: on a protected, rate-limited route the request is charged against
\* its client's bucket, and answered 429 when the bucket is empty, before its
\* API key is examined: a request without a valid key consumes a token too.
C24_LimitBeforeAuth ==
    (out.f = "serve" /\ inp.route \in ProtectedRoutes) =>
        /\ out.res.bucket = allow(inp.bucket)
        /\ ~Admits(inp.bucket) => out.res.code = 429
        /\ (Admits(inp.bucket) /\ ~requireAPIKey(inp.xkey, inp.auth, inp.keys).next) =>
              out.res.code = 401

\* the increments of reqTotal for the request, over all status labels
RECURSIVE CountSum(_, _)
CountSum(counts, cs) ==
    IF cs = {} THEN 0
    ELSE LET c == CHOOSE x \in cs : TRUE
         IN counts[c] + CountSum(counts, cs \ {c})

\* C25: every request to a routed endpoint, also one answered 429 or 401,
\* increments requests_total exactly once, under the status returned; a
\* successful POST /run is counted once.
C25_CountedOnce ==
    out.f = "serve" =>
        /\ CountSum(out.res.counts, Codes) = 1
        /\ out.res.counts[out.res.code] = 1

\* C26: with SORTBENCH_CGO=1 on a binary built without the in-process
\* engine, runs, jobs and algorithm discovery fall back to the child-process
\* engine and do not fail for the missing engine.
C26_FallsBackToShell ==
    (out.f = "engineCall" /\ inp.env /\ ~inp.built) =>
        /\ out.call.engine = "shell"
        /\ out.call.err = "nil"
        /\ out.outcome \in {"200", JobDone}

\* C27: in durable mode a cancel request that arrives after the job's lease
\* has committed (row running) and before its engine run has returned
\* signals the job's cancel handle, also in the window before the handle is
\* registered: once the run context exists it is cancelled.
C27_CancelAfterLease ==
    [][\A id \in Slots :
          (/\ cpc = 0 /\ cpc' = id
           /\ rows[id].status = JobRunning
           /\ \E w \in Workers : wjob[w] = id /\ wpc[w] \in {"leased", "exec"}) =>
              /\ id \in running
              /\ ctxErr'[id] \in {CtxCanceled, CtxDeadline}]_vars

\* C28: no GET /jobs/{id} response of the in-memory store shows a torn
\* record: finished_at and duration_ms appear only with a terminal status,
\* and started_at only with status running or later.
C28_NoTornRecord ==
    (~useDB /\ resp.route = "get" /\ resp.code = 200) =>
        /\ (resp.job.finished_at # 0 \/ resp.job.duration_ms # AbsentNum) =>
              resp.job.status \in Terminal
        /\ resp.job.started_at # 0 => resp.job.status \in {JobRunning} \cup Terminal

\* C29: in durable mode no row is left running with no worker executing it:
\* once the worker has finished the run and gone on, the row is terminal,
\* also when the run ended because of the shutdown signal.
C29_NoOrphanRunning ==
    \A s \in Slots :
        rows[s].status = JobRunning => \E w \in Workers : wjob[w] = s

\* C30: in durable mode GET /jobs/{id} answers 200 with the job's record for
\* every id a POST /jobs returned, in every status, also while error,
\* started_at, finished_at or result are NULL; it never answers 404 for it.
C30_DurableGetFinds ==
    [][(useDB /\ resp' # resp /\ resp'.route = "get"
           /\ Row(resp'.id).status # "none") =>
          /\ resp'.code = 200
          /\ resp'.job.status = Row(resp'.id).status]_vars

\* C31: a POST /jobs or POST /run whose body is malformed, is larger than
\* the body limit or fails validation is answered 400 and has no other
\* effect: no job record, no engine run, jobs_submitted_total unchanged.
C31_BadBodyRejected ==
    (/\ out.f = "handleBody"
     /\ \/ inp.body.first # "request"
        \/ inp.body.tail = "garbage"
        \/ inp.body.size > MaxBody
        \/ ~inp.body.valid) =>
        /\ out.res.code = 400
        /\ ~out.res.created /\ ~out.res.engine /\ out.res.submitted = 0

\* the metric updates a job with final status st must have caused
CompletedOnce(s, st) ==
    /\ jobsCompleted[s] = [NoCompleted EXCEPT ![st] = 1]
    /\ jobsDuration[s] = 1

\* C32: every job that has reached a terminal status has incremented
\* jobs_completed_total exactly once, under its final status, and recorded
\* one job_duration_seconds observation, in both stores, also a durable job
\* canceled while pending.
C32_CompletedCountedOnce ==
    \A s \in Slots :
        /\ jobs[s].Status \in Terminal => CompletedOnce(s, jobs[s].Status)
        /\ rows[s].status \in Terminal => CompletedOnce(s, rows[s].status)

\* C33: in durable mode the process-local cancel map holds an entry for an
\* id only while a worker that leased it is at its engine run (until the
\* delete that follows the run's return): never for a pending or terminal
\* row, and never more entries than there are workers.
C33_RunningMapScope ==
    /\ \A id \in running :
          /\ id \in Slots
          /\ rows[id].status = JobRunning
          /\ \E w \in Workers : wjob[w] = id /\ wpc[w] \in {"exec", "ran"}
    /\ \A w \in Workers : wpc[w] \in {"loop", "leased", "write", "stopped"} => wjob[w] \notin running
    /\ Cardinality(running) <= NumWorkers

\* C33 witness: one worker is at its engine run with its entry in the map
\* while another has finished a run and its entry is gone.
C33_Witness ==
    \E v, w \in Workers :
        /\ wpc[v] = "exec" /\ wjob[v] \in running
        /\ wpc[w] = "write" /\ wjob[w] \notin running
        /\ rows[wjob[w]].status = JobRunning

\* C34: every POST /jobs answered 202 returns an id that no earlier job
\* has, and creating a job never replaces a record of the store, also for
\* two in-memory submissions handled at the same clock instant.
C34_FreshId ==
    [][/\ \A i \in Times : m[i] # 0 => m'[i] = m[i]
       /\ \A s \in Slots :
             rows[s].status # "none" => rows'[s].created_at = rows[s].created_at
       /\ \A s \in Slots :
             (rpc[s] = "admitted" /\ rpc'[s] = "202" /\ ~useDB) =>
                 \A t \in Slots \ {s} : jobs[t].ID # jobs'[s].ID]_vars

\* C35: with an empty key set the auth gate answers 401 to every request to
\* a protected route, also to one that presents no key at all.
C35_EmptyKeySetRefuses ==
    /\ (out.f = "requireAPIKey" /\ inp.keys = {}) =>
          out.code = 401 /\ out.body = "unauthorized" /\ ~out.next
    /\ (out.f = "serve" /\ inp.route \in ProtectedRoutes) =>
          serveRoute(inp.route, inp.status, inp.bucket, inp.xkey, inp.auth, {}).code = 401

\* C35 witness: a request with no X-API-Key and no Authorization header was
\* refused under an empty key set.
C35_Witness ==
    /\ out.f = "requireAPIKey"
    /\ inp.keys = {} /\ inp.xkey = <<>> /\ inp.auth = <<>>
    /\ out.code = 401

\* C36: with MaxJobs = 0 the admission check is skipped: no POST /jobs is
\* answered "too many jobs", every one goes on to submitJobHandler, and the
\* number of pending or running jobs is not held at MaxJobs.
C36_ZeroMeansNoCap ==
    [][maxJobs = 0 =>
          \A s \in Slots :
              /\ (rpc[s] = "idle" /\ rpc'[s] # "idle") =>
                    (rpc'[s] = "admitted" /\ resp' = resp)
              /\ rpc'[s] # "429"]_vars

\* C36 witness: under MaxJobs = 0 every submission was answered 202 and all
\* the jobs are pending or running at once.
C36_Witness ==
    /\ maxJobs = 0
    /\ \A s \in Slots : rpc[s] = "202"
    /\ StoreActive = NumJobs
    /\ StoreActive > maxJobs

\* C37: for every validated request the in-process engine is given the same
\* effective configuration as the child process: repeats, seed, algorithms,
\* plugins, baseline and distribution tunables, with speedup_vs_baseline
\* emitted whenever a baseline is given.
C37_SameConfiguration ==
    /\ out.f = "config" =>
          /\ out.cgo = out.shell
          /\ out.cgo.speedup = out.cgo.baseline.given
    /\ out.f = "engine" =>
          cgoConfig(inp.req).repeats = parseArgs(buildArgs(inp.req)).repeats

\* the dlopen, dlclose and run calls of a run that concern library i
EventsOf(i) == SelectSeq(out.events, LAMBDA e : e.lib = i)

\* C38: every library opened during a run is closed exactly once: at once
\* when it gave no usable entry for the element type, otherwise after the
\* last pass of the run; never twice and never before a pass of one of its
\* algorithms.
C38_ClosedExactlyOnce ==
    out.f = "bench" =>
        \A i \in 1..Len(inp.libs) :
            LET ev == EventsOf(i)
                mine == {k \in 1..Len(out.regs) : out.regs[k].lib = i}
            IN  inp.libs[i].opens =>
                    /\ Len(ev) >= 2
                    /\ ev[1].op = "dlopen"
                    /\ ev[Len(ev)].op = "dlclose"
                    /\ \A k \in 2..(Len(ev) - 1) : ev[k].op = "run"
                    /\ mine = {} => Len(ev) = 2
                    /\ mine # {} =>
                          \A k \in 1..Len(out.events) :
                              (out.events[k].op = "dlclose" /\ out.events[k].lib = i) =>
                                  \A j \in (k + 1)..Len(out.events) : out.events[j].op = "dlclose"

\* the names the registry holds that came from library i, in order
NamesFrom(i) == Names(SelectSeq(out.regs, LAMBDA a : a.lib = i))

\* C39: the loader calls get_algorithms_v2 whenever the library exports it
\* and get_algorithms_v1 only when v2 is absent; v1 entries are registered
\* only for i32 and v2 entries only with a non-null pointer for the element
\* type; a library that does not load or enumerate is skipped, and the other
\* plugins and all built-ins are registered all the same.
C39_V2Preferred ==
    out.f = "bench" =>
        /\ \A k \in 1..Len(build_registry_t(inp.type)) :
               out.regs[k] = build_registry_t(inp.type)[k]
        /\ \A i \in 1..Len(inp.libs) :
              LET L == inp.libs[i]
                  from2 == {a \in {L.v2.arr[k] : k \in 1..Len(L.v2.arr)} :
                               /\ a.name # "NULL"
                               /\ (inp.type = "i32" /\ a.run_i32) \/ (inp.type = "f32" /\ a.run_f32)}
                  from1 == {a \in {L.v1.arr[k] : k \in 1..Len(L.v1.arr)} :
                               inp.type = "i32" /\ a.run_int}
              IN  /\ (L.opens /\ L.v2.exported) <=> "v2" \in out.called[i]
                  /\ "v1" \in out.called[i] <=> (L.opens /\ ~L.v2.exported /\ L.v1.exported)
                  /\ {NamesFrom(i)[k] : k \in 1..Len(NamesFrom(i))} =
                        IF "v2" \in out.called[i] /\ L.v2.ok THEN {a.name : a \in from2}
                        ELSE IF "v1" \in out.called[i] /\ L.v1.ok THEN {a.name : a \in from1}
                        ELSE {}

\* C39 witness: the first library does not load; the second exports both
\* symbols, its v2 table has no pointer for i32 and its v1 table has a usable
\* entry, which is not registered; the built-ins are.
C39_Witness ==
    /\ out.f = "bench" /\ inp.type = "i32"
    /\ Len(inp.libs) = 2
    /\ ~inp.libs[1].opens
    /\ inp.libs[2].opens /\ inp.libs[2].v2.exported /\ inp.libs[2].v2.ok
    /\ inp.libs[2].v2.arr = <<[name |-> "p2", run_i32 |-> FALSE, run_f32 |-> TRUE]>>
    /\ inp.libs[2].v1.arr = <<[name |-> "p1", run_int |-> TRUE]>>
    /\ out.called = <<{}, {"v2"}>>
    /\ Len(out.regs) = 2

\* whether the request's algos names the registered algorithm a
Chosen(a) == inp.algos = <<>> \/ \E i \in 1..Len(inp.algos) : inp.algos[i] = a.name

====
